---- MODULE Spec2Model ----
(***************************************************************************)
(* Kinematics engine of the physics sandbox: MotionObject (six motion      *)
(* modes, drag, ground bounce, stats), Projectile (ballistic flight, timed *)
(* fade and removal) and the two orchestrators KinematicsSimulation and    *)
(* PhysicsSimulation.                                                      *)
(*                                                                         *)
(* JavaScript numbers are modelled in fixed point: the integer n stands    *)
(* for n / SCALE, products and quotients truncate toward zero.  Rendering  *)
(* resources are modelled only as far as the engine reads or releases      *)
(* them: the mesh (present or disposed), its position and its opacity.     *)
(* The trail polyline of a MotionObject is pure rendering and is left out. *)
(***************************************************************************)
EXTENDS Integers, Sequences, FiniteSets, TLC

VARIABLES
    program,        \* which entry point runs: "object", "kin" or "phys"
    objs,           \* MotionObject instances, by identity
    motionObjects,  \* KinematicsSimulation.motionObjects
    projs,          \* Projectile instances, by identity
    projectiles,    \* PhysicsSimulation.projectiles
    timeScale,      \* the orchestrator's timeScale
    disposeCalls,   \* history: number of dispose() calls per instance
    hist,           \* history: per MotionObject the state held before launch(),
                    \* per Projectile the status its last update returned
    last,           \* history: the last call, its arguments and its results
    steps,          \* history: number of frames driven so far
    pushes          \* history: number of collaborator calls other than spawns and frames

vars == <<program, objs, motionObjects, projs, projectiles, timeScale,
          disposeCalls, hist, last, steps, pushes>>

(***************************************************************************)
(* Fixed-point arithmetic                                                  *)
(***************************************************************************)
SCALE == 1000

Abs(a) == IF a < 0 THEN -a ELSE a

Max(a, b) == IF a >= b THEN a ELSE b

TruncDiv(a, b) ==
    IF (a < 0) # (b < 0) THEN -(Abs(a) \div Abs(b)) ELSE Abs(a) \div Abs(b)

FMul(a, b) == TruncDiv(a * b, SCALE)

FDiv(a, b) == TruncDiv(a * SCALE, b)

\* the element of a one-element set; {F(x) : x \in {e}} computes e once and
\* names its value x, as an assignment to a local does
The(S) == CHOOSE x \in S : TRUE

RECURSIVE NewtonSqrt(_, _)
NewtonSqrt(n, x) ==
    The({ IF y >= x THEN x ELSE NewtonSqrt(n, y) : y \in {(x + n \div x) \div 2} })

ISqrt(n) == The({ IF m <= 0 THEN 0 ELSE NewtonSqrt(m, m) : m \in {n} })

\* Math.sqrt on a fixed-point argument
FSqrt(a) == ISqrt(a * SCALE)

PI == 3142

HalfPI == PI \div 2

TwoPI == 2 * PI

\* THREE.MathUtils.degToRad
DegToRad(d) == TruncDiv(d * PI, 180 * SCALE)

\* the Taylor polynomial of the sine of r, with r2 the square of r
SinSeries(r, r2) ==
    LET t3 == TruncDiv(FMul(r, r2), 6)
        t5 == TruncDiv(FMul(t3, r2), 20)
        t7 == TruncDiv(FMul(t5, r2), 42)
    IN  r - t3 + t5 - t7

\* an angle of [-pi, pi] folded into [-pi/2, pi/2], with the same sine
FoldAngle(r) ==
    IF r > HalfPI THEN PI - r ELSE IF r < -HalfPI THEN -PI - r ELSE r

\* the sine of an angle of [-pi/2, pi/2]
SinFolded(r) == SinSeries(r, FMul(r, r))

\* Math.sin: range reduction to [-pi/2, pi/2], then the Taylor polynomial
Sin(x) == SinFolded(FoldAngle(((x + PI) % TwoPI) - PI))

\* Math.cos
Cos(x) == Sin(x + HalfPI)

(***************************************************************************)
(* THREE.Vector3                                                           *)
(***************************************************************************)
Vec(x, y, z) == [x |-> x, y |-> y, z |-> z]

ZeroVec == Vec(0, 0, 0)

VAdd(a, b) == Vec(a.x + b.x, a.y + b.y, a.z + b.z)

VSub(a, b) == Vec(a.x - b.x, a.y - b.y, a.z - b.z)

VScale(a, s) == Vec(FMul(a.x, s), FMul(a.y, s), FMul(a.z, s))

\* Vector3.length()
Length(a) == ISqrt(a.x * a.x + a.y * a.y + a.z * a.z)

(***************************************************************************)
(* JavaScript parameter objects: a partial configuration is a function     *)
(* whose domain is the set of supplied keys.                               *)
(***************************************************************************)
EmptyParams == [k \in {} |-> 0]

Has(config, k) == k \in DOMAIN config

\* params.k || d  for numbers
NumOr(config, k, d) == IF Has(config, k) /\ config[k] # 0 THEN config[k] ELSE d

\* params.k || d  for strings
StrOr(config, k, d) == IF Has(config, k) /\ config[k] # "" THEN config[k] ELSE d

\* config.k when config.k !== undefined, else d
IfSet(config, k, d) == IF Has(config, k) THEN config[k] ELSE d

\* params.k || false  for booleans
BoolOr(config, k) == Has(config, k) /\ config[k]

(***************************************************************************)
(* MotionObject                                                            *)
(***************************************************************************)
DefaultGravity == 9800

DefaultRadius == 5000

DefaultOmega == 1000

DefaultMass == 1000

DefaultDragCoefficient == 100

DefaultRestitution == 700

BounceThreshold == 100

DragEpsilon == 1

\* an optional number (a stats field that is undefined until first written)
Undefined == <<>>

Some(v) == <<v>>

InitialStats ==
    [speed |-> 0, displacement |-> 0, accelerationMag |-> 0,
     centripetalAccel |-> 0, timeToImpact |-> 0, impactVelocity |-> 0,
     maxHeight |-> Undefined, range |-> Undefined]

\* constructor(scene, position, params)
NewMotionObject(position, params) ==
    LET velocity == Vec(NumOr(params, "vx", 0), NumOr(params, "vy", 0),
                        NumOr(params, "vz", 0))
    IN  [motionType        |-> StrOr(params, "motionType", "linear"),
         position          |-> position,
         velocity          |-> velocity,
         acceleration      |-> Vec(NumOr(params, "ax", 0), NumOr(params, "ay", 0),
                                   NumOr(params, "az", 0)),
         mass              |-> NumOr(params, "mass", DefaultMass),
         initialPosition   |-> position,
         initialVelocity   |-> velocity,
         elapsedTime       |-> 0,
         gravity           |-> NumOr(params, "gravity", DefaultGravity),
         dropHeight        |-> NumOr(params, "dropHeight", position.y),
         circularRadius    |-> NumOr(params, "circularRadius", DefaultRadius),
         angularVelocity   |-> NumOr(params, "angularVelocity", DefaultOmega),
         circularClockwise |-> BoolOr(params, "circularClockwise"),
         circularCenter    |-> position,
         frameVelocity     |-> Vec(NumOr(params, "frameVx", 0),
                                   NumOr(params, "frameVy", 0),
                                   NumOr(params, "frameVz", 0)),
         viewInWorldFrame  |-> TRUE,
         dragMode          |-> StrOr(params, "dragMode", "none"),
         dragCoefficient   |-> NumOr(params, "dragCoefficient", DefaultDragCoefficient),
         restitution       |-> NumOr(params, "restitution", DefaultRestitution),
         bounceEnabled     |-> IF Has(params, "bounceEnabled")
                               THEN params["bounceEnabled"] ELSE TRUE,
         bounceThreshold   |-> BounceThreshold,
         isStopped         |-> FALSE,
         isLaunched        |-> FALSE,
         status            |-> "idle",
         stats             |-> InitialStats,
         meshPosition      |-> position,
         hasMesh           |-> TRUE]

\* the vector built from a magnitude and two angles (radians)
FromRadians(mag, hAngle, vAngle) ==
    Vec(FMul(FMul(mag, Cos(vAngle)), Sin(hAngle)),
        FMul(mag, Sin(vAngle)),
        FMul(FMul(mag, Cos(vAngle)), Cos(hAngle)))

\* the vector built from a magnitude, a heading and an elevation (degrees)
FromAngles(mag, hDeg, vDeg) == FromRadians(mag, DegToRad(hDeg), DegToRad(vDeg))

\* the components of v the configuration overrides one by one
Components(v, config, kx, ky, kz) ==
    Vec(IfSet(config, kx, v.x), IfSet(config, ky, v.y), IfSet(config, kz, v.z))

\* setParams(config): velocity, and initialVelocity which follows it
ConfigVelocity(v, config) ==
    Components(IF Has(config, "velocityMag") /\ Has(config, "directionAngle")
               THEN FromAngles(config["velocityMag"],
                               NumOr(config, "directionAngle", 0),
                               NumOr(config, "verticalAngle", 0))
               ELSE v,
               config, "vx", "vy", "vz")

\* setParams(config): acceleration
ConfigAcceleration(a, config) ==
    Components(IF Has(config, "accelMag") /\ Has(config, "accelDirection")
               THEN FromAngles(config["accelMag"],
                               NumOr(config, "accelDirection", 0),
                               NumOr(config, "accelVerticalAngle", 0))
               ELSE a,
               config, "ax", "ay", "az")

\* the horizontal vector of magnitude mag and heading fAngle (radians)
FrameVector(mag, fAngle) == Vec(FMul(mag, Sin(fAngle)), 0, FMul(mag, Cos(fAngle)))

\* setParams(config): frameVelocity
ConfigFrameVelocity(f, config) ==
    IF Has(config, "frameVelocityMag") /\ Has(config, "frameDirection")
    THEN FrameVector(config["frameVelocityMag"], DegToRad(config["frameDirection"]))
    ELSE f

\* setParams(config)
SetParams(o, config) ==
    [o EXCEPT !.motionType = IfSet(config, "motionType", @),
              !.velocity = ConfigVelocity(@, config),
              !.initialVelocity = ConfigVelocity(@, config),
              !.acceleration = ConfigAcceleration(@, config),
              !.gravity = IfSet(config, "gravity", @),
              !.dropHeight = IfSet(config, "dropHeight", @),
              !.initialPosition.y = IfSet(config, "dropHeight", @),
              !.position.y = IfSet(config, "dropHeight", @),
              !.meshPosition.y = IfSet(config, "dropHeight", @),
              !.circularRadius = IfSet(config, "circularRadius", @),
              !.angularVelocity = IfSet(config, "angularVelocity", @),
              !.circularClockwise = IfSet(config, "circularClockwise", @),
              !.frameVelocity = ConfigFrameVelocity(@, config),
              !.viewInWorldFrame = IfSet(config, "viewInWorldFrame", @),
              !.dragMode = IfSet(config, "dragMode", @),
              !.dragCoefficient = IfSet(config, "dragCoefficient", @),
              !.restitution = IfSet(config, "restitution", @),
              !.bounceEnabled = IfSet(config, "bounceEnabled", @),
              !.mass = NumOr(config, "mass", @)]

LaunchInPlace(o) ==
    [o EXCEPT !.isLaunched = TRUE, !.status = "active",
              !.elapsedTime = 0, !.isStopped = FALSE]

\* launch(): unconditional, the source has no early return
Launch(o) ==
    LET o1 == [o EXCEPT !.isLaunched = TRUE, !.status = "active",
                        !.elapsedTime = 0, !.isStopped = FALSE,
                        !.initialPosition = o.position,
                        !.initialVelocity = o.velocity]
        o2 == IF o1.motionType = "freefall"
              THEN [o1 EXCEPT !.acceleration = Vec(0, -o1.gravity, 0),
                              !.velocity = ZeroVec,
                              !.initialVelocity = ZeroVec]
              ELSE o1
        o3 == IF o2.motionType = "projectile"
              THEN [o2 EXCEPT !.acceleration = Vec(0, -o2.gravity, 0)]
              ELSE o2
    IN  IF o3.motionType = "circular"
        THEN LET p == Vec(o3.position.x + o3.circularRadius, o3.position.y,
                          o3.position.z)
             IN  [o3 EXCEPT !.circularCenter = o3.position,
                            !.position = p,
                            !.initialPosition = p]
        ELSE o3

ResetKeepsStatus(o) ==
    [o EXCEPT !.position = o.initialPosition,
              !.velocity = o.initialVelocity,
              !.meshPosition = o.initialPosition,
              !.elapsedTime = 0,
              !.isLaunched = FALSE,
              !.isStopped = FALSE]

\* reset()
Reset(o) ==
    [o EXCEPT !.position = o.initialPosition,
              !.velocity = o.initialVelocity,
              !.meshPosition = o.initialPosition,
              !.elapsedTime = 0,
              !.isLaunched = FALSE,
              !.isStopped = FALSE,
              !.status = "idle"]

ApplyDragPushing(o, dt) ==
    IF o.dragMode = "none" THEN o.velocity ELSE VScale(o.velocity, 2 * SCALE)

\* _applyDrag(dt): the velocity after the drag step
ApplyDrag(o, dt) ==
    IF o.dragMode = "none" THEN o.velocity
    ELSE
    LET k == o.dragCoefficient
        m == o.mass
        v == o.velocity
        speed == Length(v)
    IN  IF speed < DragEpsilon THEN v
        ELSE IF o.dragMode = "linear"
        THEN Vec(v.x - FMul(FDiv(FMul(k, v.x), m), dt),
                 v.y - FMul(FDiv(FMul(k, v.y), m), dt),
                 v.z - FMul(FDiv(FMul(k, v.z), m), dt))
        ELSE IF o.dragMode = "quadratic"
        THEN Vec(v.x - FMul(FDiv(FMul(FMul(k, speed), v.x), m), dt),
                 v.y - FMul(FDiv(FMul(FMul(k, speed), v.y), m), dt),
                 v.z - FMul(FDiv(FMul(FMul(k, speed), v.z), m), dt))
        ELSE v

SettledStatusRemove == "remove"

\* the status an object takes when it settles on the ground
SettledStatus == "stopped"

ReboundUndamped(o) == -o.velocity.y

\* the vertical velocity after the bounce: -restitution * velocity.y
Rebound(o) == FMul(-o.restitution, o.velocity.y)

\* _handleGroundCollision()
HandleGroundCollision(o) ==
    IF o.position.y <= 0 /\ o.velocity.y < 0
    THEN LET o1 == [o EXCEPT !.position.y = 0]
         IN  IF o1.bounceEnabled /\ o1.restitution > 0
             THEN LET vy == Rebound(o1)
                      o2 == IF Abs(vy) < o1.bounceThreshold
                            THEN [o1 EXCEPT !.velocity.y = 0,
                                            !.isStopped = TRUE,
                                            !.status = SettledStatus]
                            ELSE [o1 EXCEPT !.velocity.y = vy]
                  IN  [o2 EXCEPT !.initialPosition = o2.position,
                                 !.initialVelocity = o2.velocity,
                                 !.elapsedTime = 0]
             ELSE [o1 EXCEPT !.velocity.y = 0,
                             !.isStopped = TRUE,
                             !.status = SettledStatus]
    ELSE o

\* a mode update that ends with the ground test: m is the integrated state
WithGround(m) ==
    The({ [obj |-> HandleGroundCollision(o), mid |-> o, tested |-> TRUE] : o \in {m} })

\* a mode update that returns without the ground test
WithoutGround(m) ==
    The({ [obj |-> o, mid |-> o, tested |-> FALSE] : o \in {m} })

\* x0 + u t + (0.5 a) t t
Suvat(x0, u, a, t) == x0 + FMul(u, t) + FMul(FMul(FMul(SCALE \div 2, a), t), t)

\* the object after the call of _applyDrag(dt) that opens a mode update
Dragged(o, dt) == [o EXCEPT !.velocity = ApplyDrag(o, dt)]

\* position += velocity * dt
Stepped(o, v, dt) ==
    Vec(o.position.x + FMul(v.x, dt),
        o.position.y + FMul(v.y, dt),
        o.position.z + FMul(v.z, dt))

LinearMoveFromHere(o, dt) ==
    [o EXCEPT !.position = Stepped(o, o.initialVelocity, o.elapsedTime)]

\* _updateLinear(dt) after the drag step
LinearMove(o, dt) ==
    IF o.dragMode = "none"
    THEN [o EXCEPT !.position =
              Vec(o.initialPosition.x + FMul(o.initialVelocity.x, o.elapsedTime),
                  o.initialPosition.y + FMul(o.initialVelocity.y, o.elapsedTime),
                  o.initialPosition.z + FMul(o.initialVelocity.z, o.elapsedTime))]
    ELSE [o EXCEPT !.position = Stepped(o, o.velocity, dt)]

\* _updateLinear(dt)
UpdateLinear(o, dt) == WithGround(LinearMove(Dragged(o, dt), dt))

\* v + a * t
Sped(v, a, t) == Vec(v.x + FMul(a.x, t), v.y + FMul(a.y, t), v.z + FMul(a.z, t))

\* _updateAccelerated(dt) after the drag step
AcceleratedMove(o, dt) ==
    IF o.dragMode = "none"
    THEN [o EXCEPT !.position =
              Vec(Suvat(o.initialPosition.x, o.initialVelocity.x, o.acceleration.x,
                        o.elapsedTime),
                  Suvat(o.initialPosition.y, o.initialVelocity.y, o.acceleration.y,
                        o.elapsedTime),
                  Suvat(o.initialPosition.z, o.initialVelocity.z, o.acceleration.z,
                        o.elapsedTime)),
                    !.velocity = Sped(o.initialVelocity, o.acceleration, o.elapsedTime)]
    ELSE [o EXCEPT !.velocity = Sped(o.velocity, o.acceleration, dt),
                   !.position = Stepped(o, Sped(o.velocity, o.acceleration, dt), dt)]

\* _updateAccelerated(dt)
UpdateAccelerated(o, dt) == WithGround(AcceleratedMove(Dragged(o, dt), dt))

\* the velocity after gravity has acted for dt
Fallen(o, dt) == [o.velocity EXCEPT !.y = @ + FMul(-o.gravity, dt)]

\* _updateFreefall(dt) after the drag step
FreefallMove(o, dt) ==
    IF o.dragMode = "none"
    THEN [o EXCEPT !.position =
              Vec(o.initialPosition.x,
                  o.initialPosition.y
                    - FMul(FMul(FMul(SCALE \div 2, o.gravity), o.elapsedTime),
                           o.elapsedTime),
                  o.initialPosition.z),
                    !.velocity.y = FMul(-o.gravity, o.elapsedTime)]
    ELSE [o EXCEPT !.velocity = Fallen(o, dt),
                   !.position = Stepped(o, Fallen(o, dt), dt)]

UpdateFreefallNoGround(o, dt) == WithoutGround(FreefallMove(Dragged(o, dt), dt))

\* _updateFreefall(dt)
UpdateFreefall(o, dt) == WithGround(FreefallMove(Dragged(o, dt), dt))

\* _updateProjectile(dt) after the drag step
ProjectileMove(o, dt) ==
    IF o.dragMode = "none"
    THEN [o EXCEPT !.position =
              Vec(o.initialPosition.x + FMul(o.initialVelocity.x, o.elapsedTime),
                  o.initialPosition.y + FMul(o.initialVelocity.y, o.elapsedTime)
                    - FMul(FMul(FMul(SCALE \div 2, o.gravity), o.elapsedTime),
                           o.elapsedTime),
                  o.initialPosition.z + FMul(o.initialVelocity.z, o.elapsedTime)),
                    !.velocity = Vec(o.initialVelocity.x,
                                     o.initialVelocity.y - FMul(o.gravity, o.elapsedTime),
                                     o.initialVelocity.z)]
    ELSE [o EXCEPT !.velocity = Fallen(o, dt),
                   !.position = Stepped(o, Fallen(o, dt), dt)]

\* _updateProjectile(dt)
UpdateProjectile(o, dt) == WithGround(ProjectileMove(Dragged(o, dt), dt))

\* the point and the velocity on the circle at the angle ang, turning in the
\* sense sign
OnCircle(o, ang, sign) ==
    [o EXCEPT !.position = Vec(o.circularCenter.x + FMul(o.circularRadius, Cos(ang)),
                               o.circularCenter.y,
                               o.circularCenter.z + FMul(o.circularRadius, Sin(ang))),
              !.velocity = Vec(FMul(FMul(-o.circularRadius, o.angularVelocity), Sin(ang))
                                 * sign,
                               0,
                               FMul(FMul(o.circularRadius, o.angularVelocity), Cos(ang))
                                 * sign)]

\* +1 counter-clockwise, -1 clockwise
Sense(o) == IF o.circularClockwise THEN -1 ELSE 1

\* _updateCircular(dt)
UpdateCircular(o, dt) ==
    WithoutGround(OnCircle(o, FMul(Sense(o) * o.angularVelocity, o.elapsedTime),
                           Sense(o)))

\* _updateRelative(dt) after the drag step: position += (velocity + frameVelocity) * dt
RelativeMove(o, dt) ==
    [o EXCEPT !.position = Stepped(o, VAdd(o.velocity, o.frameVelocity), dt)]

\* _updateRelative(dt): the mesh drawn in the moving frame
InFrame(o) ==
    [o EXCEPT !.meshPosition =
         VSub(o.position, VScale(o.frameVelocity, o.elapsedTime))]

\* _updateRelative(dt) after the position update
RelativeView(o) ==
    IF ~o.viewInWorldFrame THEN WithoutGround(InFrame(o)) ELSE WithGround(o)

\* _updateRelative(dt)
UpdateRelative(o, dt) == RelativeView(RelativeMove(Dragged(o, dt), dt))

ComputeStatsUnfloored(o) ==
    [o.stats EXCEPT !.speed = Length(o.velocity),
                    !.timeToImpact =
                        IF o.motionType = "projectile" /\ o.gravity > 0
                        THEN FDiv(2 * o.initialVelocity.y, o.gravity) - o.elapsedTime
                        ELSE @]

\* _computeStats(): the stats snapshot
ComputeStats(o) ==
    LET s0 == [o.stats EXCEPT !.speed = Length(o.velocity),
                              !.displacement = Length(VSub(o.position, o.initialPosition)),
                              !.accelerationMag = Length(o.acceleration)]
        s1 == IF o.motionType = "circular"
              THEN [s0 EXCEPT !.centripetalAccel =
                        FMul(FMul(o.angularVelocity, o.angularVelocity), o.circularRadius)]
              ELSE s0
        s2 == IF o.motionType = "freefall" /\ o.initialPosition.y > 0 /\ o.gravity > 0
              THEN LET tImpact == FSqrt(FDiv(2 * o.dropHeight, o.gravity))
                   IN  [s1 EXCEPT !.timeToImpact = Max(0, tImpact - o.elapsedTime),
                                  !.impactVelocity = FMul(o.gravity, tImpact)]
              ELSE s1
    IN  IF o.motionType = "projectile" /\ o.gravity > 0
        THEN LET vy0 == o.initialVelocity.y
                 g == o.gravity
                 tFlight == IF vy0 > 0 THEN FDiv(2 * vy0, g) ELSE 0
                 maxH == IF vy0 > 0 THEN FDiv(FMul(vy0, vy0), 2 * g) ELSE 0
                 vHoriz == ISqrt(o.initialVelocity.x * o.initialVelocity.x
                                 + o.initialVelocity.z * o.initialVelocity.z)
                 vImp == vy0 - FMul(g, tFlight)
             IN  [s2 EXCEPT !.timeToImpact = Max(0, tFlight - o.elapsedTime),
                            !.maxHeight = Some(maxH),
                            !.range = Some(FMul(vHoriz, tFlight)),
                            !.impactVelocity = ISqrt(vHoriz * vHoriz + vImp * vImp)]
        ELSE s2

UpdateDefaultIdle(o, dt) == WithoutGround(o)

\* update(dt): the default: branch of the switch on motionType
UpdateDefault(o, dt) == UpdateLinear(o, dt)

UpdateSkippedIdleOnly(o) == ~o.isLaunched

\* update(dt): the early return
UpdateSkipped(o) == ~o.isLaunched \/ o.isStopped

\* update(dt): the object after the call, the returned status, and for the
\* record the integrated state the ground test saw and whether it ran
Update(o, dt) ==
    IF UpdateSkipped(o)
    THEN [obj |-> o, ret |-> o.status, mid |-> o, tested |-> FALSE, ran |-> FALSE]
    ELSE
    LET o1 == [o EXCEPT !.elapsedTime = @ + dt]
        moved == CASE o1.motionType = "linear"      -> UpdateLinear(o1, dt)
                   [] o1.motionType = "accelerated" -> UpdateAccelerated(o1, dt)
                   [] o1.motionType = "freefall"    -> UpdateFreefall(o1, dt)
                   [] o1.motionType = "projectile"  -> UpdateProjectile(o1, dt)
                   [] o1.motionType = "circular"    -> UpdateCircular(o1, dt)
                   [] o1.motionType = "relative"    -> UpdateRelative(o1, dt)
                   [] OTHER                         -> UpdateDefault(o1, dt)
    IN  The({ The({ The({ [obj |-> [o2 EXCEPT !.stats = stats], ret |-> o2.status,
                           mid |-> r.mid, tested |-> r.tested, ran |-> TRUE]
                          : stats \in {ComputeStats(o2)} })
                    : o2 \in {[r.obj EXCEPT !.meshPosition = r.obj.position]} })
              : r \in {moved} })

DisposeKeepsMesh(o) == o

\* dispose()
Dispose(o) == [o EXCEPT !.hasMesh = FALSE]

\* dispose(): what the guard `if (this.mesh)` lets the call release
Released(o) == IF o.hasMesh THEN {"mesh"} ELSE {}

\* _clearTrail(): what the guard `if (this.trailLine)` lets the call release
TrailReleased(trailLine) == IF trailLine THEN {"trailLine"} ELSE {}

\* _updateTrail(): the trail after one more point; the line is rebuilt from
\* the third point on
UpdateTrail(trail) ==
    [trail EXCEPT !.trailPoints = @ + 1,
                  !.trailLine = @ \/ trail.trailPoints + 1 > 2]

\* setParams(config) on a disposed object: config.dropHeight makes it write
\* this.mesh.position.y, a TypeError on the null mesh
SetParamsThrows(o, config) == ~o.hasMesh /\ Has(config, "dropHeight")

\* setParams(config) up to the TypeError: the assignments made before
\* this.mesh.position.y
SetParamsThrown(o, config) ==
    [o EXCEPT !.motionType = IfSet(config, "motionType", @),
              !.velocity = ConfigVelocity(@, config),
              !.initialVelocity = ConfigVelocity(@, config),
              !.acceleration = ConfigAcceleration(@, config),
              !.gravity = IfSet(config, "gravity", @),
              !.dropHeight = config["dropHeight"],
              !.initialPosition.y = config["dropHeight"],
              !.position.y = config["dropHeight"]]

\* reset() on a disposed object: this.mesh.position is a TypeError
ResetThrows(o) == ~o.hasMesh

\* reset() up to the TypeError
ResetThrown(o) ==
    [o EXCEPT !.position = o.initialPosition, !.velocity = o.initialVelocity]

\* update(dt) on a disposed object: past the early return the mesh sync (in
\* _updateRelative or in update) is a TypeError on the null mesh
UpdateThrows(o) == ~o.hasMesh /\ ~UpdateSkipped(o)

\* update(dt) up to the TypeError: the mode update has run, the mesh and
\* the stats are as they were
UpdateThrown(o, dt) ==
    The({ [r.obj EXCEPT !.meshPosition = o.meshPosition, !.stats = o.stats]
          : r \in {Update(o, dt)} })

\* computePreviewPoints: the preview time step
PreviewDt == 50

\* computePreviewPoints: the uniform-motion point at time t, from velocity u
PreviewLine(o, u, t) ==
    Vec(o.initialPosition.x + FMul(u.x, t),
        o.initialPosition.y + FMul(u.y, t),
        o.initialPosition.z + FMul(u.z, t))

\* computePreviewPoints: (px, py, pz) at time t, one case per motionType
PreviewPoint(o, t) ==
    CASE o.motionType = "linear" -> PreviewLine(o, o.initialVelocity, t)
      [] o.motionType = "accelerated" ->
            Vec(Suvat(o.initialPosition.x, o.initialVelocity.x, o.acceleration.x, t),
                Suvat(o.initialPosition.y, o.initialVelocity.y, o.acceleration.y, t),
                Suvat(o.initialPosition.z, o.initialVelocity.z, o.acceleration.z, t))
      [] o.motionType = "freefall" ->
            Vec(o.initialPosition.x,
                o.initialPosition.y - FMul(FMul(FMul(SCALE \div 2, o.gravity), t), t),
                o.initialPosition.z)
      [] o.motionType = "projectile" ->
            Vec(o.initialPosition.x + FMul(o.initialVelocity.x, t),
                o.initialPosition.y + FMul(o.initialVelocity.y, t)
                  - FMul(FMul(FMul(SCALE \div 2, o.gravity), t), t),
                o.initialPosition.z + FMul(o.initialVelocity.z, t))
      [] o.motionType = "circular" ->
            Vec(o.circularCenter.x
                  + FMul(o.circularRadius, Cos(FMul(Sense(o) * o.angularVelocity, t))),
                o.circularCenter.y,
                o.circularCenter.z
                  + FMul(o.circularRadius, Sin(FMul(Sense(o) * o.angularVelocity, t))))
      [] o.motionType = "relative" ->
            PreviewLine(o, Vec(o.velocity.x + o.frameVelocity.x, o.velocity.y,
                               o.velocity.z + o.frameVelocity.z), t)
      [] OTHER -> PreviewLine(o, o.initialVelocity, t)

\* if (py < 0) py = 0
Grounded(pt) == [pt EXCEPT !.y = Max(0, @)]

PreviewContinuesTo(i, numPoints) == i <= numPoints

\* computePreviewPoints: the loop condition i < numPoints
PreviewContinues(i, numPoints) == i < numPoints

\* computePreviewPoints: the break after a point on the ground
PreviewBreaks(o, i, pt) == pt.y <= 0 /\ i > 0 /\ o.motionType # "circular"

\* computePreviewPoints: the loop from index i on
RECURSIVE PreviewLoop(_, _, _, _)
PreviewLoop(o, i, numPoints, points) ==
    IF ~PreviewContinues(i, numPoints) THEN points
    ELSE The({ IF PreviewBreaks(o, i, pt) THEN Append(points, pt)
               ELSE PreviewLoop(o, i + 1, numPoints, Append(points, pt))
               : pt \in {Grounded(PreviewPoint(o, i * PreviewDt))} })

\* computePreviewPoints(numPoints): the object after the call (the method
\* assigns no field of this) and the returned points
ComputePreviewPoints(o, numPoints) ==
    [obj |-> o, points |-> PreviewLoop(o, 0, numPoints, <<>>)]

(***************************************************************************)
(* Projectile                                                              *)
(***************************************************************************)
DefaultProjectileVelocity == 20000

DefaultProjectileAngle == 45000

DefaultProjectileGravity == 9810

LandedTimeout == 2000

\* params.k ?? d
NumOrNullish(params, k, d) == IF Has(params, k) THEN params[k] ELSE d

\* constructor(scene, position, params); a fresh material is opaque
NewProjectile(position, params) ==
    [initialVelocity |-> NumOrNullish(params, "velocity", DefaultProjectileVelocity),
     angle           |-> NumOrNullish(params, "angle", DefaultProjectileAngle),
     gravity         |-> NumOrNullish(params, "gravity", DefaultProjectileGravity),
     mass            |-> NumOrNullish(params, "mass", SCALE),
     launchPosition  |-> position,
     elapsedTime     |-> 0,
     isLaunched      |-> FALSE,
     hasLanded       |-> FALSE,
     landedTimer     |-> 0,
     groundLevel     |-> 0,
     vx              |-> 0,
     vy              |-> 0,
     launchDir       |-> Vec(SCALE, 0, 0),
     meshPosition    |-> position,
     opacity         |-> SCALE,
     transparent     |-> FALSE,
     hasMesh         |-> TRUE,
     hasRing         |-> TRUE,
     hasTrajectoryLine |-> FALSE]

\* setLaunchDirection(dir): Vector3(dir.x, 0, dir.z).normalize()
SetLaunchDirection(p, dir) ==
    LET d == Vec(dir.x, 0, dir.z)
        len == Length(d)
        div == IF len = 0 THEN SCALE ELSE len
    IN  [p EXCEPT !.launchDir = Vec(FDiv(d.x, div), 0, FDiv(d.z, div))]

\* Projectile.setParams({velocity, angle, gravity, mass})
ProjectileSetParams(p, config) ==
    [p EXCEPT !.initialVelocity = NumOrNullish(config, "velocity", @),
              !.angle = NumOrNullish(config, "angle", @),
              !.gravity = NumOrNullish(config, "gravity", @),
              !.mass = NumOrNullish(config, "mass", @)]

\* Projectile.launch()
ProjectileLaunch(p) ==
    IF p.isLaunched THEN p
    ELSE LET theta == DegToRad(p.angle)
         IN  [p EXCEPT !.vx = FMul(p.initialVelocity, Cos(theta)),
                       !.vy = FMul(p.initialVelocity, Sin(theta)),
                       !.elapsedTime = 0,
                       !.isLaunched = TRUE,
                       !.hasLanded = FALSE,
                       !.landedTimer = 0,
                       !.hasRing = FALSE,
                       !.hasTrajectoryLine = FALSE]

LandedExpiredLate(timer) == timer > LandedTimeout

\* Projectile.update(dt): the landed phase is over
LandedExpired(timer) == timer >= LandedTimeout

\* Projectile.update(dt): the fade during the landed phase
FadeOpacity(timer) == Max(0, SCALE - FDiv(timer, LandedTimeout))

\* Projectile.applyDrag(vx, vy): the extensibility hook, identity by default
ProjectileApplyDrag(vx, vy) == [vx |-> vx, vy |-> vy]

\* Projectile.update(dt): the projectile after the call and the returned status
ProjectileUpdate(p, dt) ==
    IF ~p.isLaunched THEN [obj |-> p, ret |-> "active"]
    ELSE IF p.hasLanded
    THEN LET p1 == [p EXCEPT !.landedTimer = @ + dt]
         IN  IF LandedExpired(p1.landedTimer)
             THEN [obj |-> p1, ret |-> "remove"]
             ELSE [obj |-> [p1 EXCEPT !.transparent = TRUE,
                                      !.opacity = FadeOpacity(p1.landedTimer)],
                   ret |-> "landed"]
    ELSE
    LET p1 == [p EXCEPT !.elapsedTime = @ + dt]
        t  == p1.elapsedTime
        adj == ProjectileApplyDrag(p1.vx, p1.vy)
        dx == FMul(adj.vx, t)
        dy == FMul(adj.vy, t) - FMul(FMul(FMul(SCALE \div 2, p1.gravity), t), t)
        newX == p1.launchPosition.x + FMul(p1.launchDir.x, dx)
        newZ == p1.launchPosition.z + FMul(p1.launchDir.z, dx)
        newY == p1.launchPosition.y + dy
        landed == newY <= p1.groundLevel
        p2 == IF landed
              THEN [p1 EXCEPT !.hasLanded = TRUE, !.landedTimer = 0,
                              !.meshPosition = Vec(newX, p1.groundLevel, newZ)]
              ELSE [p1 EXCEPT !.meshPosition = Vec(newX, newY, newZ)]
    IN  [obj |-> p2, ret |-> IF p2.hasLanded THEN "landed" ELSE "active"]

\* drawTrajectoryLine(): the preview line replaces the one before it
DrawTrajectoryLine(p) == [p EXCEPT !.hasTrajectoryLine = TRUE]

\* Projectile.dispose(): what clearTrajectoryLine() and the guards
\* `if (this.mesh)`, `if (this.ring)` let the call release
ProjectileReleased(p) ==
    (IF p.hasTrajectoryLine THEN {"trajectoryLine"} ELSE {})
    \cup (IF p.hasMesh THEN {"mesh"} ELSE {})
    \cup (IF p.hasRing THEN {"ring"} ELSE {})

ProjectileDisposeNothing(p) == p

\* Projectile.dispose()
ProjectileDispose(p) ==
    [p EXCEPT !.hasTrajectoryLine = FALSE, !.hasMesh = FALSE, !.hasRing = FALSE]

(***************************************************************************)
(* Orchestrators                                                           *)
(***************************************************************************)
SpliceNext(seq, i) == SubSeq(seq, 1, i) \o SubSeq(seq, i + 2, Len(seq))

\* Array.prototype.splice(i, 1), i counted from 1
Splice(seq, i) == SubSeq(seq, 1, i - 1) \o SubSeq(seq, i + 1, Len(seq))

\* Array.prototype.indexOf, 0 when absent
RECURSIVE IndexFrom(_, _, _)
IndexFrom(seq, e, i) ==
    IF i > Len(seq) THEN 0
    ELSE IF seq[i] = e THEN i ELSE IndexFrom(seq, e, i + 1)

IndexOfNone(seq, e) == 0

IndexOf(seq, e) == IndexFrom(seq, e, 1)

\* get count(): the length of the collection
Count(coll) == Len(coll)

\* the orchestrators evict an entity whose update returned this status
Evicts(status) == status = "remove"

\* what the history keeps of one MotionObject.update call
KinResult(o, r) ==
    [ret |-> r.ret, tested |-> r.tested, ran |-> r.ran, pre |-> o.status,
     mid |-> r.mid]

NoResults == [k \in {} |-> 0]

\* the record of one entity.update(dt) call made by an orchestrator loop
Visited(st, id, dt) == [st EXCEPT !.visits = Append(@, [id |-> id, dt |-> dt])]

ScaledDtUnscaled(deltaTime, ts) == deltaTime

\* update(deltaTime): scaledDt = deltaTime * this.timeScale
ScaledDt(deltaTime, ts) == FMul(deltaTime, ts)

LoopStartShort(coll) == Len(coll) - 1

\* the orchestrator loops start at the last index: i = length - 1 (from 0)
LoopStart(coll) == Len(coll)

\* the loop state as an orchestrator update starts
LoopInit(coll, ents, calls) ==
    [coll |-> coll, ents |-> ents, calls |-> calls, res |-> NoResults, visits |-> <<>>]

\* the record of an orchestrator update(deltaTime) call
FrameCall(deltaTime, st) ==
    [op |-> "update", id |-> 0, dt |-> deltaTime, res |-> st.res, visits |-> st.visits]

\* KinematicsSimulation.update: one pass of the loop body, on the object id
\* at index i whose update returned r
KinStep(st, i, id, r) ==
    [coll  |-> IF Evicts(r.ret) THEN Splice(st.coll, i) ELSE st.coll,
     ents  |-> [st.ents EXCEPT ![id] = IF Evicts(r.ret) THEN Dispose(r.obj) ELSE r.obj],
     calls |-> IF Evicts(r.ret) THEN [st.calls EXCEPT ![id] = @ + 1] ELSE st.calls,
     res   |-> (id :> KinResult(st.ents[id], r)) @@ st.res,
     visits |-> st.visits]

\* KinematicsSimulation.update: the loop from index i down to 1
RECURSIVE KinLoop(_, _, _)
KinLoop(st, i, scaledDt) ==
    IF i < 1 THEN st
    ELSE KinLoop(KinStep(Visited(st, st.coll[i], scaledDt), i, st.coll[i],
                         Update(st.ents[st.coll[i]], scaledDt)),
                 i - 1, scaledDt)

\* PhysicsSimulation.update: one pass of the loop body, on the projectile id
\* at index i whose update returned r
PhysStep(st, i, id, r) ==
    [coll  |-> IF Evicts(r.ret) THEN Splice(st.coll, i) ELSE st.coll,
     ents  |-> [st.ents EXCEPT ![id] =
                    IF Evicts(r.ret) THEN ProjectileDispose(r.obj) ELSE r.obj],
     calls |-> IF Evicts(r.ret) THEN [st.calls EXCEPT ![id] = @ + 1] ELSE st.calls,
     res   |-> (id :> [ret |-> r.ret]) @@ st.res,
     visits |-> st.visits]

\* PhysicsSimulation.update: the loop from index i down to 1
RECURSIVE PhysLoop(_, _, _)
PhysLoop(st, i, scaledDt) ==
    IF i < 1 THEN st
    ELSE PhysLoop(PhysStep(Visited(st, st.coll[i], scaledDt), i, st.coll[i],
                           ProjectileUpdate(st.ents[st.coll[i]], scaledDt)),
                  i - 1, scaledDt)

(***************************************************************************)
(* Inputs                                                                  *)
(***************************************************************************)
MaxObjects == 2

MaxProjectiles == 2

MaxSteps == 3

MaxFrames == 3

MaxPushes == 3

\* spawn points: the height the spawners clamp to
SpawnPositions == {Vec(0, 350, 0)}

\* configurations pushed by the panel (one per mode, as _pushParams builds
\* them) and a partial one set through setParams directly
Configs ==
    { [motionType |-> "freefall", mass |-> 1000, dropHeight |-> 1000,
       gravity |-> 9800, bounceEnabled |-> TRUE, restitution |-> 500],
      [motionType |-> "projectile", mass |-> 1000, velocityMag |-> 2000,
       directionAngle |-> 0, verticalAngle |-> 45000, gravity |-> 9800,
       bounceEnabled |-> TRUE, restitution |-> 500],
      [motionType |-> "circular", mass |-> 1000, circularRadius |-> 2000,
       angularVelocity |-> 1000, circularClockwise |-> TRUE],
      [motionType |-> "relative", mass |-> 1000, velocityMag |-> 2000,
       directionAngle |-> 0, verticalAngle |-> 0, frameVelocityMag |-> 1000,
       frameDirection |-> 90000, viewInWorldFrame |-> FALSE,
       dragMode |-> "none", dragCoefficient |-> 100,
       bounceEnabled |-> TRUE, restitution |-> 700],
      [motionType |-> "accelerated", mass |-> 1000, velocityMag |-> 1000,
       directionAngle |-> 90000, verticalAngle |-> 0, accelMag |-> 5000,
       accelDirection |-> 0, accelVerticalAngle |-> -90000,
       dragMode |-> "none", dragCoefficient |-> 100,
       bounceEnabled |-> TRUE, restitution |-> 700],
      [motionType |-> "linear", mass |-> 1000, velocityMag |-> 240,
       directionAngle |-> 0, verticalAngle |-> -90000,
       dragMode |-> "none", dragCoefficient |-> 100,
       bounceEnabled |-> TRUE, restitution |-> 400],
      [motionType |-> "linear", mass |-> 2000, velocityMag |-> 2000,
       directionAngle |-> 0, verticalAngle |-> -45000,
       dragMode |-> "linear", dragCoefficient |-> 500,
       bounceEnabled |-> FALSE, restitution |-> 700],
      [vy |-> -2000],
      [velocityMag |-> 3000] }

\* the configurations pushed while the orchestrator drives several objects
KinConfigs ==
    {c \in Configs : /\ Has(c, "motionType")
                     /\ c["motionType"] \in {"circular", "linear"}
                     /\ Has(c, "restitution") => c["restitution"] >= 500}

ConfigsOf(prog) == IF prog = "kin" THEN KinConfigs ELSE Configs

\* configurations pushed by the projectile panel
ProjectileConfigs ==
    { [velocity |-> 2000, angle |-> 45000, gravity |-> 9810, mass |-> 2000] }

\* camera headings at spawn time
LaunchDirs == {Vec(600, -300, -800)}

\* frame deltas, already capped at 0.1 s by the render loop
DeltaTimes == {100}

TimeScales == {0, 1000, 10000}

\* steps passed directly to MotionObject.update
DirectDts == {0, 100, 500}

\* numbers of points asked of computePreviewPoints
PreviewCounts == {0, 2, 12}

(***************************************************************************)
(* Actions on MotionObject instances (panel and KinematicsSimulation)      *)
(***************************************************************************)
Call(op, id, dt, res) == [op |-> op, id |-> id, dt |-> dt, res |-> res]

NoHist == [position |-> ZeroVec, velocity |-> ZeroVec, clean |-> FALSE, t |-> 0]

Held(ids) == {ids[i] : i \in 1..Len(ids)}

\* spawnMotionObject(): new MotionObject(scene, spawnPos), addObject(obj)
KinSpawn ==
    /\ program = "kin"
    /\ Cardinality(DOMAIN objs) < MaxObjects
    /\ \E pos \in SpawnPositions :
         LET id == Cardinality(DOMAIN objs) + 1
         IN  /\ objs' = (id :> NewMotionObject(pos, EmptyParams)) @@ objs
             /\ motionObjects' = Append(motionObjects, id)
             /\ disposeCalls' = (id :> 0) @@ disposeCalls
             /\ hist' = (id :> NoHist) @@ hist
             /\ last' = Call("addObject", id, 0, NoResults)
    /\ UNCHANGED <<program, projs, projectiles, timeScale, steps, pushes>>

\* the panel pushes a configuration to its active object
DoSetParams ==
    /\ program \in {"kin", "object"}
    /\ pushes < MaxPushes
    /\ \E id \in Held(motionObjects) : \E config \in ConfigsOf(program) :
         /\ ~SetParamsThrows(objs[id], config)
         /\ objs' = [objs EXCEPT ![id] = SetParams(@, config)]
         /\ hist' = [hist EXCEPT ![id].clean = @ /\ ~objs[id].isLaunched]
         /\ last' = Call("setParams", id, 0, config)
    /\ pushes' = pushes + 1
    /\ UNCHANGED <<program, motionObjects, projs, projectiles, timeScale,
                   disposeCalls, steps>>

\* the panel's launch button
DoLaunch ==
    /\ program \in {"kin", "object"}
    /\ pushes < MaxPushes
    /\ pushes' = pushes + 1
    /\ \E id \in Held(motionObjects) :
         /\ objs' = [objs EXCEPT ![id] = Launch(@)]
         /\ hist' = [hist EXCEPT ![id] =
                        IF objs[id].isLaunched THEN [@ EXCEPT !.clean = FALSE]
                        ELSE [position |-> objs[id].position,
                              velocity |-> objs[id].velocity,
                              clean |-> TRUE,
                              t |-> 0]]
         /\ last' = Call("launch", id, 0, NoResults)
    /\ UNCHANGED <<program, motionObjects, projs, projectiles, timeScale,
                   disposeCalls, steps>>

\* the panel's reset button
DoReset ==
    /\ program \in {"kin", "object"}
    /\ pushes < MaxPushes
    /\ pushes' = pushes + 1
    /\ \E id \in Held(motionObjects) :
         /\ ~ResetThrows(objs[id])
         /\ objs' = [objs EXCEPT ![id] = Reset(@)]
         /\ last' = Call("reset", id, 0, NoResults)
    /\ UNCHANGED <<program, motionObjects, projs, projectiles, timeScale,
                   disposeCalls, hist, steps>>

\* MotionObject.update(dt) called directly
DoUpdate ==
    /\ program = "object"
    /\ steps < MaxSteps
    /\ \E id \in Held(motionObjects) : \E dt \in DirectDts :
         \E r \in {Update(objs[id], dt)} :
             /\ ~UpdateThrows(objs[id])
             /\ objs' = [objs EXCEPT ![id] = r.obj]
             /\ last' = Call("update", id, dt, id :> KinResult(objs[id], r))
    /\ steps' = steps + 1
    /\ UNCHANGED <<program, motionObjects, projs, projectiles, timeScale,
                   disposeCalls, hist, pushes>>

\* MotionObject.computePreviewPoints(numPoints) called directly
DoPreview ==
    /\ program = "object"
    /\ pushes < MaxPushes
    /\ pushes' = pushes + 1
    /\ \E id \in Held(motionObjects) : \E numPoints \in PreviewCounts :
         \E r \in {ComputePreviewPoints(objs[id], numPoints)} :
             /\ objs' = [objs EXCEPT ![id] = r.obj]
             /\ last' = Call("computePreviewPoints", id, numPoints,
                             id :> [points |-> r.points])
    /\ UNCHANGED <<program, motionObjects, projs, projectiles, timeScale,
                   disposeCalls, hist, steps>>

\* MotionObject.dispose() called directly
DoDispose ==
    /\ program = "object"
    /\ pushes < MaxPushes
    /\ pushes' = pushes + 1
    /\ \E id \in Held(motionObjects) :
         /\ objs' = [objs EXCEPT ![id] = Dispose(@)]
         /\ disposeCalls' = [disposeCalls EXCEPT ![id] = @ + 1]
         /\ last' = Call("dispose", id, 0, NoResults)
    /\ UNCHANGED <<program, motionObjects, projs, projectiles, timeScale,
                   hist, steps>>

\* the record of a call that ended in an uncaught TypeError
Thrown(op, id) == Call("TypeError", id, 0, [in |-> op])

\* setParams(config) on a disposed object, ending in the TypeError
SetParamsDisposed ==
    /\ program = "object"
    /\ pushes < MaxPushes
    /\ pushes' = pushes + 1
    /\ \E id \in Held(motionObjects) : \E config \in Configs :
         /\ SetParamsThrows(objs[id], config)
         /\ objs' = [objs EXCEPT ![id] = SetParamsThrown(@, config)]
         /\ last' = Thrown("setParams", id)
    /\ UNCHANGED <<program, motionObjects, projs, projectiles, timeScale,
                   disposeCalls, hist, steps>>

\* reset() on a disposed object, ending in the TypeError
ResetDisposed ==
    /\ program = "object"
    /\ pushes < MaxPushes
    /\ pushes' = pushes + 1
    /\ \E id \in Held(motionObjects) :
         /\ ResetThrows(objs[id])
         /\ objs' = [objs EXCEPT ![id] = ResetThrown(@)]
         /\ last' = Thrown("reset", id)
    /\ UNCHANGED <<program, motionObjects, projs, projectiles, timeScale,
                   disposeCalls, hist, steps>>

\* update(dt) on a disposed object, ending in the TypeError
UpdateDisposed ==
    /\ program = "object"
    /\ steps < MaxSteps
    /\ steps' = steps + 1
    /\ \E id \in Held(motionObjects) : \E dt \in DirectDts :
         /\ UpdateThrows(objs[id])
         /\ objs' = [objs EXCEPT ![id] = UpdateThrown(@, dt)]
         /\ last' = Thrown("update", id)
    /\ UNCHANGED <<program, motionObjects, projs, projectiles, timeScale,
                   disposeCalls, hist, pushes>>

\* a collaborator sets the orchestrator's timeScale
SetTimeScale ==
    /\ program \in {"kin", "phys"}
    /\ pushes < MaxPushes
    /\ pushes' = pushes + 1
    /\ \E ts \in TimeScales :
         /\ ts # timeScale
         /\ timeScale' = ts
         /\ last' = Call("timeScale", 0, ts, NoResults)
    /\ UNCHANGED <<program, objs, motionObjects, projs, projectiles,
                   disposeCalls, hist, steps>>

\* KinematicsSimulation.update(deltaTime)
KinUpdate ==
    /\ program = "kin"
    /\ steps < MaxFrames
    /\ \E deltaTime \in DeltaTimes :
         LET scaledDt == ScaledDt(deltaTime, timeScale)
             st == KinLoop(LoopInit(motionObjects, objs, disposeCalls),
                           LoopStart(motionObjects), scaledDt)
         IN  /\ motionObjects' = st.coll
             /\ objs' = st.ents
             /\ disposeCalls' = st.calls
             /\ last' = FrameCall(deltaTime, st)
    /\ steps' = steps + 1
    /\ UNCHANGED <<program, projs, projectiles, timeScale, hist, pushes>>

\* KinematicsSimulation.removeObject(obj)
KinRemoveObject ==
    /\ program = "kin"
    /\ pushes < MaxPushes
    /\ pushes' = pushes + 1
    /\ \E id \in Held(motionObjects) :
         LET idx == IndexOf(motionObjects, id)
         IN  /\ motionObjects' = IF idx > 0 THEN Splice(motionObjects, idx)
                                 ELSE motionObjects
             /\ objs' = [objs EXCEPT ![id] = Dispose(@)]
             /\ disposeCalls' = [disposeCalls EXCEPT ![id] = @ + 1]
             /\ last' = Call("removeObject", id, 0, NoResults)
    /\ UNCHANGED <<program, projs, projectiles, timeScale, hist, steps>>

\* KinematicsSimulation.removeAll()
KinRemoveAll ==
    /\ program = "kin"
    /\ pushes < MaxPushes
    /\ pushes' = pushes + 1
    /\ objs' = [id \in DOMAIN objs |->
                   IF id \in Held(motionObjects) THEN Dispose(objs[id]) ELSE objs[id]]
    /\ disposeCalls' = [id \in DOMAIN disposeCalls |->
                   IF id \in Held(motionObjects) THEN disposeCalls[id] + 1
                   ELSE disposeCalls[id]]
    /\ motionObjects' = <<>>
    /\ last' = Call("removeAll", 0, 0, NoResults)
    /\ UNCHANGED <<program, projs, projectiles, timeScale, hist, steps>>

(***************************************************************************)
(* Actions on Projectile instances (panel and PhysicsSimulation)           *)
(***************************************************************************)
\* spawnProjectile(): new Projectile, setLaunchDirection, addProjectile
PhysSpawn ==
    /\ program = "phys"
    /\ Cardinality(DOMAIN projs) < MaxProjectiles
    /\ \E pos \in SpawnPositions : \E dir \in LaunchDirs :
         LET id == Cardinality(DOMAIN projs) + 1
         IN  /\ projs' = (id :> SetLaunchDirection(NewProjectile(pos, EmptyParams), dir))
                         @@ projs
             /\ projectiles' = Append(projectiles, id)
             /\ disposeCalls' = (id :> 0) @@ disposeCalls
             /\ hist' = (id :> [ret |-> "none"]) @@ hist
             /\ last' = Call("addProjectile", id, 0, NoResults)
    /\ UNCHANGED <<program, objs, motionObjects, timeScale, steps, pushes>>

\* the projectile panel pushes its sliders
PhysSetParams ==
    /\ program = "phys"
    /\ pushes < MaxPushes
    /\ pushes' = pushes + 1
    /\ \E id \in Held(projectiles) : \E config \in ProjectileConfigs :
         /\ projs' = [projs EXCEPT ![id] = ProjectileSetParams(@, config)]
         /\ last' = Call("setParams", id, 0, NoResults)
    /\ UNCHANGED <<program, objs, motionObjects, projectiles, timeScale,
                   disposeCalls, hist, steps>>

\* the projectile panel's launch button
PhysLaunch ==
    /\ program = "phys"
    /\ pushes < MaxPushes
    /\ pushes' = pushes + 1
    /\ \E id \in Held(projectiles) :
         /\ projs' = [projs EXCEPT ![id] = ProjectileLaunch(@)]
         /\ last' = Call("launch", id, 0, NoResults)
    /\ UNCHANGED <<program, objs, motionObjects, projectiles, timeScale,
                   disposeCalls, hist, steps>>

\* PhysicsSimulation.update(deltaTime)
PhysUpdate ==
    /\ program = "phys"
    /\ steps < MaxFrames
    /\ \E deltaTime \in DeltaTimes :
         LET scaledDt == ScaledDt(deltaTime, timeScale)
             st == PhysLoop(LoopInit(projectiles, projs, disposeCalls),
                            LoopStart(projectiles), scaledDt)
         IN  /\ projectiles' = st.coll
             /\ projs' = st.ents
             /\ disposeCalls' = st.calls
             /\ hist' = [id \in DOMAIN hist |->
                            IF id \in DOMAIN st.res THEN [ret |-> st.res[id].ret]
                            ELSE hist[id]]
             /\ last' = FrameCall(deltaTime, st)
    /\ steps' = steps + 1
    /\ UNCHANGED <<program, objs, motionObjects, timeScale, pushes>>

\* PhysicsSimulation.removeProjectile(projectile)
PhysRemoveProjectile ==
    /\ program = "phys"
    /\ pushes < MaxPushes
    /\ pushes' = pushes + 1
    /\ \E id \in Held(projectiles) :
         LET idx == IndexOf(projectiles, id)
         IN  /\ projectiles' = IF idx > 0 THEN Splice(projectiles, idx)
                               ELSE projectiles
             /\ projs' = [projs EXCEPT ![id] = ProjectileDispose(@)]
             /\ disposeCalls' = [disposeCalls EXCEPT ![id] = @ + 1]
             /\ last' = Call("removeProjectile", id, 0, NoResults)
    /\ UNCHANGED <<program, objs, motionObjects, timeScale, hist, steps>>

\* PhysicsSimulation.removeAll()
PhysRemoveAll ==
    /\ program = "phys"
    /\ pushes < MaxPushes
    /\ pushes' = pushes + 1
    /\ projs' = [id \in DOMAIN projs |->
                   IF id \in Held(projectiles) THEN ProjectileDispose(projs[id])
                   ELSE projs[id]]
    /\ disposeCalls' = [id \in DOMAIN disposeCalls |->
                   IF id \in Held(projectiles) THEN disposeCalls[id] + 1
                   ELSE disposeCalls[id]]
    /\ projectiles' = <<>>
    /\ last' = Call("removeAll", 0, 0, NoResults)
    /\ UNCHANGED <<program, objs, motionObjects, timeScale, hist, steps>>

(***************************************************************************)
(* Specifications                                                          *)
(***************************************************************************)
NoInstances == [k \in {} |-> 0]

\* either entry point: the kinematics sandbox or the projectile sandbox
Init ==
    /\ program \in {"kin", "phys"}
    /\ objs = NoInstances
    /\ motionObjects = <<>>
    /\ projs = NoInstances
    /\ projectiles = <<>>
    /\ timeScale = SCALE
    /\ disposeCalls = NoInstances
    /\ hist = NoInstances
    /\ last = Call("new", 0, 0, NoResults)
    /\ steps = 0
    /\ pushes = 0

Next ==
    \/ KinSpawn
    \/ DoSetParams
    \/ DoLaunch
    \/ DoReset
    \/ SetTimeScale
    \/ KinUpdate
    \/ KinRemoveObject
    \/ KinRemoveAll
    \/ PhysSpawn
    \/ PhysSetParams
    \/ PhysLaunch
    \/ PhysUpdate
    \/ PhysRemoveProjectile
    \/ PhysRemoveAll

Spec == Init /\ [][Next]_vars

\* one MotionObject driven through its own interface
InitObject ==
    /\ program = "object"
    /\ \E pos \in SpawnPositions : objs = (1 :> NewMotionObject(pos, EmptyParams))
    /\ motionObjects = <<1>>
    /\ projs = NoInstances
    /\ projectiles = <<>>
    /\ timeScale = SCALE
    /\ disposeCalls = (1 :> 0)
    /\ hist = (1 :> NoHist)
    /\ last = Call("new", 1, 0, NoResults)
    /\ steps = 0
    /\ pushes = 0

NextObject ==
    \/ DoSetParams
    \/ DoLaunch
    \/ DoReset
    \/ DoUpdate
    \/ DoPreview

SpecObject == InitObject /\ [][NextObject]_vars

NextDisposal ==
    \/ DoSetParams
    \/ DoLaunch
    \/ DoReset
    \/ DoUpdate
    \/ DoPreview
    \/ DoDispose
    \/ SetParamsDisposed
    \/ ResetDisposed
    \/ UpdateDisposed

\* one MotionObject driven through its whole interface, dispose() included
SpecDisposal == InitObject /\ [][NextDisposal]_vars

\* configurations of the gravity slider: falling modes, then gravity switched
\* off or reversed
StatsConfigs ==
    { [motionType |-> "freefall", mass |-> 1000, dropHeight |-> 1000,
       gravity |-> 9800, bounceEnabled |-> TRUE, restitution |-> 500],
      [motionType |-> "projectile", vy |-> 3000, vx |-> 1000, gravity |-> 9800,
       bounceEnabled |-> TRUE, restitution |-> 500],
      [gravity |-> 0],
      [gravity |-> -9800] }

\* the panel pushes a gravity configuration
StatsPush ==
    /\ program = "object"
    /\ pushes < MaxPushes
    /\ pushes' = pushes + 1
    /\ \E config \in StatsConfigs :
         /\ objs' = [objs EXCEPT ![1] = SetParams(@, config)]
         /\ last' = Call("setParams", 1, 0, config)
    /\ UNCHANGED <<program, motionObjects, projs, projectiles, timeScale,
                   disposeCalls, hist, steps>>

NextStats ==
    \/ StatsPush
    \/ DoLaunch
    \/ DoUpdate

\* one MotionObject whose gravity is reconfigured while its stats are read
SpecStats == InitObject /\ [][NextStats]_vars

\* configurations whose motionType is none of the six the switch knows
FallbackConfigs ==
    { [motionType |-> "spiral", vx |-> 1000, vy |-> -2000,
       bounceEnabled |-> TRUE, restitution |-> 500],
      [motionType |-> "spiral", vy |-> -1000, vz |-> 2000, ay |-> -5000,
       dragMode |-> "linear", dragCoefficient |-> 500, bounceEnabled |-> FALSE] }

\* a collaborator pushes a configuration with an unknown motionType
FallbackPush ==
    /\ program = "object"
    /\ pushes < MaxPushes
    /\ pushes' = pushes + 1
    /\ \E config \in FallbackConfigs :
         /\ objs' = [objs EXCEPT ![1] = SetParams(@, config)]
         /\ last' = Call("setParams", 1, 0, config)
    /\ UNCHANGED <<program, motionObjects, projs, projectiles, timeScale,
                   disposeCalls, hist, steps>>

NextFallback ==
    \/ FallbackPush
    \/ DoLaunch
    \/ DoReset
    \/ DoUpdate
    \/ DoPreview

\* one MotionObject configured with an unknown motionType
SpecFallback == InitObject /\ [][NextFallback]_vars

\* linear configurations without drag: towards the ground with and without
\* bounce, and away from it
LinearConfigs ==
    { [motionType |-> "linear", vx |-> 1000, vy |-> -2000,
       bounceEnabled |-> TRUE, restitution |-> 500],
      [motionType |-> "linear", vy |-> -2000, vz |-> 1000, bounceEnabled |-> FALSE],
      [motionType |-> "linear", vy |-> 1000, vz |-> -3000] }

\* the panel pushes a linear configuration to the idle object
LinearPush ==
    /\ program = "object"
    /\ pushes < MaxPushes
    /\ pushes' = pushes + 1
    /\ ~objs[1].isLaunched
    /\ \E config \in LinearConfigs :
         /\ objs' = [objs EXCEPT ![1] = SetParams(@, config)]
         /\ last' = Call("setParams", 1, 0, config)
    /\ UNCHANGED <<program, motionObjects, projs, projectiles, timeScale,
                   disposeCalls, hist, steps>>

\* MotionObject.update(dt) called directly; the history adds up the steps
\* of the updates that ran
TimedUpdate ==
    /\ program = "object"
    /\ steps < MaxSteps
    /\ steps' = steps + 1
    /\ \E dt \in DirectDts :
         \E r \in {Update(objs[1], dt)} :
             /\ objs' = [objs EXCEPT ![1] = r.obj]
             /\ hist' = [hist EXCEPT ![1].t = IF r.ran THEN @ + dt ELSE @]
             /\ last' = Call("update", 1, dt, 1 :> KinResult(objs[1], r))
    /\ UNCHANGED <<program, motionObjects, projs, projectiles, timeScale,
                   disposeCalls, pushes>>

NextLinear ==
    \/ LinearPush
    \/ DoLaunch
    \/ TimedUpdate

\* one linear MotionObject without drag, launched and updated
SpecLinear == InitObject /\ [][NextLinear]_vars

\* one falling MotionObject driven by frames of positive length, forever
BounceConfigs ==
    { [motionType |-> "freefall", mass |-> 1000, dropHeight |-> 1000,
       gravity |-> 9800, bounceEnabled |-> TRUE, restitution |-> 500],
      [motionType |-> "projectile", vy |-> 3000, gravity |-> 9800,
       bounceEnabled |-> TRUE, restitution |-> 500],
      [motionType |-> "freefall", mass |-> 1000, dropHeight |-> 20000,
       gravity |-> 9800, bounceEnabled |-> FALSE, restitution |-> 500] }

BouncePush ==
    /\ program = "object"
    /\ pushes = 0
    /\ \E config \in BounceConfigs :
         /\ objs' = [objs EXCEPT ![1] = SetParams(@, config)]
         /\ last' = Call("setParams", 1, 0, NoResults)
    /\ pushes' = 1
    /\ UNCHANGED <<program, motionObjects, projs, projectiles, timeScale,
                   disposeCalls, hist, steps>>

BounceLaunch ==
    /\ program = "object"
    /\ pushes = 1
    /\ objs' = [objs EXCEPT ![1] = Launch(@)]
    /\ last' = Call("launch", 1, 0, NoResults)
    /\ pushes' = 2
    /\ UNCHANGED <<program, motionObjects, projs, projectiles, timeScale,
                   disposeCalls, hist, steps>>

BounceUpdate ==
    /\ program = "object"
    /\ \E dt \in DirectDts \ {0} :
         \E r \in {Update(objs[1], dt)} :
             /\ objs' = [objs EXCEPT ![1] = r.obj]
             /\ last' = Call("update", 1, dt, 1 :> KinResult(objs[1], r))
    /\ UNCHANGED <<program, motionObjects, projs, projectiles, timeScale,
                   disposeCalls, hist, steps, pushes>>

NextBounce ==
    \/ BouncePush
    \/ BounceLaunch
    \/ BounceUpdate

\* the render loop never stops calling update
SpecBounce == InitObject /\ [][NextBounce]_vars /\ WF_vars(BounceUpdate)

\* one Projectile held by PhysicsSimulation, spawned as spawnProjectile() does
InitLanded ==
    /\ program = "phys"
    /\ objs = NoInstances
    /\ motionObjects = <<>>
    /\ \E pos \in SpawnPositions : \E dir \in LaunchDirs :
         projs = (1 :> SetLaunchDirection(NewProjectile(pos, EmptyParams), dir))
    /\ projectiles = <<1>>
    /\ timeScale = SCALE
    /\ disposeCalls = (1 :> 0)
    /\ hist = (1 :> [ret |-> "none"])
    /\ last = Call("addProjectile", 1, 0, NoResults)
    /\ steps = 0
    /\ pushes = 0

\* PhysicsSimulation.update(deltaTime), called by every frame of the render loop
PhysTick ==
    /\ program = "phys"
    /\ \E deltaTime \in DeltaTimes :
         \E st \in {PhysLoop(LoopInit(projectiles, projs, disposeCalls),
                             LoopStart(projectiles), ScaledDt(deltaTime, timeScale))} :
             /\ projectiles' = st.coll
             /\ projs' = st.ents
             /\ disposeCalls' = st.calls
             /\ hist' = [id \in DOMAIN hist |->
                            IF id \in DOMAIN st.res THEN [ret |-> st.res[id].ret]
                            ELSE hist[id]]
             /\ last' = FrameCall(deltaTime, st)
    /\ UNCHANGED <<program, objs, motionObjects, timeScale, steps, pushes>>

NextLanded ==
    \/ PhysSetParams
    \/ PhysLaunch
    \/ SetTimeScale
    \/ PhysTick

\* the render loop never stops calling update
SpecLanded == InitLanded /\ [][NextLanded]_vars /\ WF_vars(PhysTick)

\* linear configurations with drag, all with dt k / m below 1 for the steps
\* taken: linear drag, quadratic drag at low and at high speed, and an
\* object at rest
DragConfigs ==
    { [motionType |-> "linear", vx |-> 3000, vy |-> 4000, vz |-> 0, mass |-> 1000,
       dragMode |-> "linear", dragCoefficient |-> 500, bounceEnabled |-> FALSE],
      [motionType |-> "linear", vx |-> 300, vy |-> 0, vz |-> -400, mass |-> 1000,
       dragMode |-> "quadratic", dragCoefficient |-> 500, bounceEnabled |-> FALSE],
      [motionType |-> "linear", vx |-> 6000, vy |-> 8000, vz |-> 0, mass |-> 1000,
       dragMode |-> "quadratic", dragCoefficient |-> 500, bounceEnabled |-> FALSE],
      [motionType |-> "linear", vx |-> 0, vy |-> 0, vz |-> 0, mass |-> 2000,
       dragMode |-> "quadratic", dragCoefficient |-> 1000, bounceEnabled |-> FALSE] }

\* the panel pushes a drag configuration to the idle object
DragPush ==
    /\ program = "object"
    /\ pushes < MaxPushes
    /\ pushes' = pushes + 1
    /\ ~objs[1].isLaunched
    /\ \E config \in DragConfigs :
         /\ objs' = [objs EXCEPT ![1] = SetParams(@, config)]
         /\ last' = Call("setParams", 1, 0, config)
    /\ UNCHANGED <<program, motionObjects, projs, projectiles, timeScale,
                   disposeCalls, hist, steps>>

NextDrag ==
    \/ DragPush
    \/ DoLaunch
    \/ TimedUpdate

\* one linear MotionObject with drag, launched and updated
SpecDrag == InitObject /\ [][NextDrag]_vars

\* one MotionObject (1) and one Projectile (2) with the resources they own;
\* the history logs what every dispose() call released
InitRelease ==
    /\ program = "release"
    /\ \E pos \in SpawnPositions :
         /\ objs = (1 :> NewMotionObject(pos, EmptyParams))
         /\ projs = (2 :> NewProjectile(pos, EmptyParams))
    /\ motionObjects = <<1>>
    /\ projectiles = <<2>>
    /\ timeScale = SCALE
    /\ disposeCalls = (1 :> 0) @@ (2 :> 0)
    /\ hist = (1 :> [trailPoints |-> 0, trailLine |-> FALSE, released |-> <<>>])
              @@ (2 :> [trailPoints |-> 0, trailLine |-> FALSE, released |-> <<>>])
    /\ last = Call("new", 0, 0, NoResults)
    /\ steps = 0
    /\ pushes = 0

\* setParams(config) on the MotionObject
ReleasePush ==
    /\ program = "release"
    /\ pushes < MaxPushes
    /\ pushes' = pushes + 1
    /\ \E config \in LinearConfigs :
         /\ ~SetParamsThrows(objs[1], config)
         /\ objs' = [objs EXCEPT ![1] = SetParams(@, config)]
         /\ last' = Call("setParams", 1, 0, config)
    /\ UNCHANGED <<program, motionObjects, projs, projectiles, timeScale,
                   disposeCalls, hist, steps>>

\* launch() on the MotionObject or on the Projectile
ReleaseLaunch ==
    /\ program = "release"
    /\ pushes < MaxPushes
    /\ pushes' = pushes + 1
    /\ \/ /\ objs' = [objs EXCEPT ![1] = Launch(@)]
          /\ projs' = projs
          /\ last' = Call("launch", 1, 0, NoResults)
       \/ /\ projs' = [projs EXCEPT ![2] = ProjectileLaunch(@)]
          /\ objs' = objs
          /\ last' = Call("launch", 2, 0, NoResults)
    /\ UNCHANGED <<program, motionObjects, projectiles, timeScale,
                   disposeCalls, hist, steps>>

\* MotionObject.update(dt): an update that runs adds a point to the trail
ReleaseUpdate ==
    /\ program = "release"
    /\ steps < MaxSteps
    /\ steps' = steps + 1
    /\ ~UpdateThrows(objs[1])
    /\ \E dt \in DirectDts :
         \E r \in {Update(objs[1], dt)} :
             /\ objs' = [objs EXCEPT ![1] = r.obj]
             /\ hist' = [hist EXCEPT ![1] = IF r.ran THEN UpdateTrail(@) ELSE @]
             /\ last' = Call("update", 1, dt, NoResults)
    /\ UNCHANGED <<program, motionObjects, projs, projectiles, timeScale,
                   disposeCalls, pushes>>

\* Projectile.update(dt) while the projectile has its mesh
ReleaseTick ==
    /\ program = "release"
    /\ steps < MaxSteps
    /\ steps' = steps + 1
    /\ projs[2].hasMesh
    /\ \E dt \in DirectDts :
         /\ projs' = [projs EXCEPT ![2] = ProjectileUpdate(@, dt).obj]
         /\ last' = Call("update", 2, dt, NoResults)
    /\ UNCHANGED <<program, objs, motionObjects, projectiles, timeScale,
                   disposeCalls, hist, pushes>>

\* the projectile panel draws the preview line of its active target
ReleaseDraw ==
    /\ program = "release"
    /\ pushes < MaxPushes
    /\ pushes' = pushes + 1
    /\ disposeCalls[2] = 0
    /\ ~projs[2].isLaunched
    /\ projs' = [projs EXCEPT ![2] = DrawTrajectoryLine(@)]
    /\ last' = Call("drawTrajectoryLine", 2, 0, NoResults)
    /\ UNCHANGED <<program, objs, motionObjects, projectiles, timeScale,
                   disposeCalls, hist, steps>>

\* dispose() on the MotionObject or on the Projectile, any number of times
ReleaseDispose ==
    /\ program = "release"
    /\ \/ /\ disposeCalls[1] < MaxPushes
          /\ objs' = [objs EXCEPT ![1] = Dispose(@)]
          /\ projs' = projs
          /\ hist' = [hist EXCEPT
                         ![1].released =
                             Append(@, Released(objs[1])
                                         \cup TrailReleased(hist[1].trailLine)),
                         ![1].trailLine = FALSE]
          /\ disposeCalls' = [disposeCalls EXCEPT ![1] = @ + 1]
          /\ last' = Call("dispose", 1, 0, NoResults)
       \/ /\ disposeCalls[2] < MaxPushes
          /\ projs' = [projs EXCEPT ![2] = ProjectileDispose(@)]
          /\ objs' = objs
          /\ hist' = [hist EXCEPT
                         ![2].released = Append(@, ProjectileReleased(projs[2]))]
          /\ disposeCalls' = [disposeCalls EXCEPT ![2] = @ + 1]
          /\ last' = Call("dispose", 2, 0, NoResults)
    /\ UNCHANGED <<program, motionObjects, projectiles, timeScale, steps, pushes>>

NextRelease ==
    \/ ReleasePush
    \/ ReleaseLaunch
    \/ ReleaseUpdate
    \/ ReleaseTick
    \/ ReleaseDraw
    \/ ReleaseDispose

\* a MotionObject and a Projectile used and then disposed, more than once
SpecRelease == InitRelease /\ [][NextRelease]_vars

(***************************************************************************)
(* Properties                                                              *)
(***************************************************************************)
\* the sequence without the members of S, order kept
RECURSIVE Without(_, _)
Without(seq, S) ==
    IF seq = <<>> THEN <<>>
    ELSE IF Head(seq) \in S THEN Without(Tail(seq), S)
    ELSE <<Head(seq)>> \o Without(Tail(seq), S)

\* the step is one orchestrator (or direct) update call
IsFrame == steps' = steps + 1

\* the scaled step of the frame just taken
FrameDt == FMul(last'.dt, timeScale)

\* C1: after an orchestrator update in which the entities of S return
\* 'remove', the collection holds exactly the other entities (N - |S| of
\* them), and dispose() was called once on each entity of S and on no other.
RemovalSafety ==
    [][ IsFrame =>
          /\ program = "phys" =>
               LET S == {id \in Held(projectiles) :
                           ProjectileUpdate(projs[id], FrameDt).ret = "remove"}
               IN  /\ projectiles' = Without(projectiles, S)
                   /\ Len(projectiles') = Len(projectiles) - Cardinality(S)
                   /\ \A id \in DOMAIN projs :
                        /\ disposeCalls'[id] =
                             disposeCalls[id] + (IF id \in S THEN 1 ELSE 0)
                        /\ id \in S => ~projs'[id].hasMesh
          /\ program = "kin" =>
               LET S == {id \in Held(motionObjects) :
                           Update(objs[id], FrameDt).ret = "remove"}
               IN  /\ motionObjects' = Without(motionObjects, S)
                   /\ Len(motionObjects') = Len(motionObjects) - Cardinality(S)
                   /\ \A id \in DOMAIN objs :
                        disposeCalls'[id] =
                          disposeCalls[id] + (IF id \in S THEN 1 ELSE 0)
      ]_vars

\* C1 witness: a tick removed one projectile and kept another
RemovalHappened ==
    /\ program = "phys"
    /\ last.op = "update"
    /\ \E id \in DOMAIN last.res : last.res[id].ret = "remove"
    /\ projectiles # <<>>

\* C2: with timeScale 0 an orchestrator update leaves elapsedTime, position
\* and velocity of every entity as they were.
FreezeKeepsState ==
    [][ (IsFrame /\ program = "kin" /\ timeScale = 0) =>
          \A id \in Held(motionObjects) :
             /\ objs'[id].elapsedTime = objs[id].elapsedTime
             /\ objs'[id].position = objs[id].position
             /\ objs'[id].velocity = objs[id].velocity
      ]_vars

\* the step is a launch() call
IsLaunch == last'.op = "launch" /\ pushes' = pushes + 1

\* the step is a reset() call
IsReset == last'.op = "reset" /\ pushes' = pushes + 1

\* C3: launch() on an already launched MotionObject changes nothing.
LaunchIsGuarded ==
    [][ (IsLaunch /\ program = "object" /\ objs[last'.id].isLaunched) =>
          LET a == objs[last'.id]
              b == objs'[last'.id]
          IN  /\ b.status = a.status
              /\ b.elapsedTime = a.elapsedTime
              /\ b.position = a.position
              /\ b.velocity = a.velocity
              /\ b.initialPosition = a.initialPosition
              /\ b.initialVelocity = a.initialVelocity
              /\ b.circularCenter = a.circularCenter
      ]_vars

\* C4: reset() after one launch() followed by updates only returns the
\* object to idle, elapsedTime 0, and the position and velocity it held
\* before launch().
ResetRestoresSpawnState ==
    [][ (IsReset /\ program = "object" /\ objs[last'.id].isLaunched
           /\ hist[last'.id].clean) =>
          LET b == objs'[last'.id]
          IN  /\ b.status = "idle"
              /\ b.elapsedTime = 0
              /\ b.position = hist[last'.id].position
              /\ b.velocity = hist[last'.id].velocity
      ]_vars

\* C5: a launched falling object with bounce enabled and restitution 0.5,
\* updated forever with positive steps, eventually is stopped.
BounceTerminates ==
    (objs[1].status = "active") ~> (objs[1].status = "stopped")

\* C6: every update that runs in a mode other than circular ends with the
\* ground test.
GroundAlwaysTested ==
    \A id \in DOMAIN objs :
        (last.op = "update" /\ id \in DOMAIN last.res /\ last.res[id].ran
           /\ objs[id].motionType # "circular")
        => last.res[id].tested

\* the objects whose last update ran the ground test
TestedUpdates ==
    {id \in DOMAIN objs :
        last.op = "update" /\ id \in DOMAIN last.res /\ last.res[id].tested}

\* the ground test's trigger on the integrated state m
Trigger(m) == m.position.y <= 0 /\ m.velocity.y < 0

\* the bounce of m falls below its threshold
BelowThreshold(m) ==
    Abs(TruncDiv(-m.restitution * m.velocity.y, SCALE)) < m.bounceThreshold

\* o holds a fresh snapshot of itself and its clock is back at 0
Rebased(o) ==
    /\ o.initialPosition = o.position
    /\ o.initialVelocity = o.velocity
    /\ o.elapsedTime = 0

\* o holds the snapshot and the clock of m
SnapshotKept(m, o) ==
    /\ o.initialPosition = m.initialPosition
    /\ o.initialVelocity = m.initialVelocity
    /\ o.elapsedTime = m.elapsedTime

\* the outcome of the ground test on m, read off the object o it left;
\* rebaseOnStop tells whether a bounce that stops the object re-takes the
\* snapshot too
BounceOutcomeWith(rebaseOnStop) ==
    \A id \in TestedUpdates :
        LET m == last.res[id].mid
            o == objs[id]
        IN  IF Trigger(m)
            THEN /\ o.position = [m.position EXCEPT !.y = 0]
                 /\ IF m.bounceEnabled /\ m.restitution > 0
                    THEN IF BelowThreshold(m)
                         THEN /\ o.velocity = [m.velocity EXCEPT !.y = 0]
                              /\ o.status = "stopped"
                              /\ o.isStopped
                              /\ IF rebaseOnStop THEN Rebased(o)
                                 ELSE SnapshotKept(m, o)
                         ELSE /\ o.velocity = [m.velocity EXCEPT !.y =
                                     TruncDiv(-m.restitution * m.velocity.y, SCALE)]
                              /\ o.status = "active"
                              /\ ~o.isStopped
                              /\ Rebased(o)
                    ELSE /\ o.velocity = [m.velocity EXCEPT !.y = 0]
                         /\ o.status = "stopped"
                         /\ o.isStopped
                         /\ SnapshotKept(m, o)
            ELSE /\ o.position = m.position
                 /\ o.velocity = m.velocity
                 /\ o.status = m.status
                 /\ o.isStopped = m.isStopped
                 /\ SnapshotKept(m, o)

\* C7: on ground contact position.y is clamped to 0; with bounce enabled and
\* restitution > 0 velocity.y becomes -restitution * velocity.y, is zeroed
\* with status stopped when below the threshold, and in both sub-cases the
\* snapshot is re-taken from the post-bounce state and elapsedTime is 0;
\* without bounce velocity.y is zeroed and the status is stopped; without the
\* trigger nothing changes.
BounceOutcome == BounceOutcomeWith(TRUE)

\* C7 as stated: the snapshot is re-taken and elapsedTime reset only when the
\* bounce stays above the threshold.
BounceOutcomeAsStated == BounceOutcomeWith(FALSE)

\* C7 witness: a bounce below the threshold stopped the object and rebased it
StoppedByThreshold ==
    \E id \in TestedUpdates :
        LET m == last.res[id].mid
        IN  /\ Trigger(m)
            /\ m.bounceEnabled /\ m.restitution > 0
            /\ BelowThreshold(m)
            /\ m.elapsedTime > 0
            /\ m.initialPosition # objs[id].initialPosition
            /\ objs[id].status = "stopped"

\* the step is a direct update(dt) call on one MotionObject
IsObjectUpdate == program = "object" /\ last'.op = "update" /\ steps' = steps + 1

\* C8: update(dt) on an idle or stopped MotionObject changes nothing of the
\* object and returns its status.
UpdateNoOpWhenInactive ==
    [][ (IsObjectUpdate /\ objs[last'.id].status \in {"idle", "stopped"}) =>
          /\ objs'[last'.id] = objs[last'.id]
          /\ last'.res[last'.id].ret = objs[last'.id].status
      ]_vars

\* C8 witness: update was called on a stopped object
UpdatedWhileStopped ==
    /\ program = "object"
    /\ last.op = "update"
    /\ last.res[last.id].pre = "stopped"
    /\ objs[last.id].status = "stopped"

\* C9: at a KinematicsSimulation frame MotionObject.update returns 'remove'
\* for no object and no dt, the frame neither evicts nor disposes an object,
\* and an object leaves the collection only in removeObject() or removeAll().
NeverAutoRemoved ==
    [][ program = "kin" =>
          /\ IsFrame =>
               /\ motionObjects' = motionObjects
               /\ disposeCalls' = disposeCalls
               /\ \A id \in DOMAIN last'.res :
                    /\ last'.res[id].ret # "remove"
                    /\ objs'[id].hasMesh = objs[id].hasMesh
               /\ \A id \in DOMAIN objs : \A dt \in DirectDts :
                    Update(objs[id], dt).ret # "remove"
          /\ (Held(motionObjects) \ Held(motionObjects') # {}) =>
               last'.op \in {"removeObject", "removeAll"}
      ]_vars

\* C9 witness: a frame updated an object that returned stopped and kept it
StoppedObjectKept ==
    /\ program = "kin"
    /\ last.op = "update"
    /\ \E id \in Held(motionObjects) :
         id \in DOMAIN last.res /\ last.res[id].ret = "stopped"

\* C10: the statuses a launched Projectile returns go active, landed, remove
\* in that order; remove is returned exactly when landedTimer has reached
\* 2.0; while landed is returned opacity is max(0, 1 - landedTimer / 2.0).
ProjectileLifecycle ==
    [][ (IsFrame /\ program = "phys") =>
          \A id \in Held(projectiles) : projs[id].isLaunched =>
              LET prev == hist[id].ret
                  cur  == last'.res[id].ret
                  b    == projs'[id]
              IN  /\ cur \in {"active", "landed", "remove"}
                  /\ prev = "landed" => cur \in {"landed", "remove"}
                  /\ prev # "remove"
                  /\ cur = "remove" <=> b.landedTimer >= 2 * SCALE
                  /\ cur = "landed" =>
                       b.opacity = Max(0, SCALE - TruncDiv(b.landedTimer * SCALE, 2 * SCALE))
      ]_vars

\* C10 witness: a projectile faded while landed and then was removed
FadedThenRemoved ==
    \E id \in DOMAIN projs :
        /\ hist[id].ret = "remove"
        /\ projs[id].landedTimer >= 2 * SCALE
        /\ projs[id].opacity < SCALE
        /\ id \notin Held(projectiles)

\* the projectile 1 has landed and is still held
LandedHeld == 1 \in Held(projectiles) /\ projs[1].hasLanded

\* the projectile 1 has left the collection and was disposed
LandedGone ==
    /\ 1 \notin Held(projectiles)
    /\ ~projs[1].hasMesh
    /\ disposeCalls[1] = 1

\* C11: when the orchestrator's timeScale stays positive from some frame on,
\* a landed Projectile held by PhysicsSimulation is eventually removed from
\* the collection and disposed.
LandedEventuallyRemoved == <>[](timeScale > 0) => (LandedHeld ~> LandedGone)

\* C11 as stated: a landed Projectile is eventually removed and disposed,
\* whatever the timeScale.
LandedAlwaysRemoved == LandedHeld ~> LandedGone

\* C11 witness: the frames removed and disposed the landed projectile
LandedThenRemoved ==
    /\ program = "phys"
    /\ projs[1].hasLanded
    /\ LandedGone
    /\ timeScale > 0
    /\ last.op = "update"
    /\ 1 \in DOMAIN last.res
    /\ last.res[1].ret = "remove"

\* the step is a computePreviewPoints(numPoints) call
IsPreview == last'.op = "computePreviewPoints" /\ pushes' = pushes + 1

\* C12: computePreviewPoints(n) returns at most n points and leaves every
\* field of the object as it was.
PreviewIsPure ==
    [][ IsPreview =>
          /\ Len(last'.res[last'.id].points) <= last'.dt
          /\ objs' = objs
      ]_vars

\* C12 witness: a preview of a launched, moving object returned points and
\* stopped at the ground before the count asked for
PreviewTaken ==
    /\ last.op = "computePreviewPoints"
    /\ objs[last.id].status = "active"
    /\ objs[last.id].elapsedTime > 0
    /\ Len(last.res[last.id].points) > 1
    /\ Len(last.res[last.id].points) < last.dt

\* the step is a setParams(config) call on a MotionObject; last'.res is config
IsSetParams ==
    /\ program = "object"
    /\ last'.op = "setParams"
    /\ pushes' = pushes + 1

\* the fields that setParams copies from the parameter of the same name
ScalarKeys ==
    {"motionType", "gravity", "dropHeight", "circularRadius", "angularVelocity",
     "circularClockwise", "viewInWorldFrame", "dragMode", "dragCoefficient",
     "restitution", "bounceEnabled", "mass"}

\* the vector v carries the supplied magnitude (within one percent)
HasMagnitude(v, mag) == Abs(Length(v) - mag) * 100 <= Abs(mag)

\* the vector b, configured from a by the magnitude key km and the component
\* keys kx, ky, kz of c: supplied components are written, a supplied
\* magnitude is written when no component overrides it
VectorMerged(a, b, c, km, kx, ky, kz) ==
    /\ Has(c, kx) => b.x = c[kx]
    /\ Has(c, ky) => b.y = c[ky]
    /\ Has(c, kz) => b.z = c[kz]
    /\ (Has(c, km) /\ ~Has(c, kx) /\ ~Has(c, ky) /\ ~Has(c, kz))
         => HasMagnitude(b, c[km])
    /\ (~Has(c, km) /\ ~Has(c, kx) /\ ~Has(c, ky) /\ ~Has(c, kz)) => b = a

\* C13: setParams(config) writes every supplied field into the object and
\* leaves every field whose parameter is not supplied as it was.
ConfigureMerges ==
    [][ IsSetParams =>
          LET c == last'.res
              a == objs[last'.id]
              b == objs'[last'.id]
          IN  /\ \A k \in ScalarKeys : b[k] = IF Has(c, k) THEN c[k] ELSE a[k]
              /\ VectorMerged(a.velocity, b.velocity, c,
                              "velocityMag", "vx", "vy", "vz")
              /\ VectorMerged(a.acceleration, b.acceleration, c,
                              "accelMag", "ax", "ay", "az")
              /\ IF Has(c, "frameVelocityMag")
                 THEN HasMagnitude(b.frameVelocity, c["frameVelocityMag"])
                 ELSE b.frameVelocity = a.frameVelocity
              /\ ~Has(c, "dropHeight") =>
                    /\ b.position = a.position
                    /\ b.initialPosition = a.initialPosition
                    /\ b.meshPosition = a.meshPosition
              /\ b.elapsedTime = a.elapsedTime
              /\ b.status = a.status
              /\ b.isLaunched = a.isLaunched
              /\ b.isStopped = a.isStopped
              /\ b.circularCenter = a.circularCenter
              /\ b.stats = a.stats
      ]_vars

\* C14: while a MotionObject is launched, setParams, update and
\* computePreviewPoints leave its motionType as it was at launch().
MotionTypeFixedInFlight ==
    [][ \A id \in DOMAIN objs :
          (/\ program = "object"
           /\ objs[id].isLaunched
           /\ last'.op \in {"setParams", "update", "computePreviewPoints"})
          => objs'[id].motionType = objs[id].motionType
      ]_vars

\* C15: no call of setParams, launch, update, reset, computePreviewPoints or
\* dispose on a MotionObject ends in an uncaught exception, before or after
\* dispose().
NoFatalError == last.op # "TypeError"

\* the optional stat s is unset or 0
ZeroOrUnset(s) == s = Undefined \/ s = Some(0)

\* C16: after an update that ran with gravity <= 0, the stats report
\* timeToImpact 0 and impactVelocity 0, and maxHeight and range 0 when set.
GravityOffStatsZero ==
    \A id \in DOMAIN objs :
        (/\ last.op = "update"
         /\ id \in DOMAIN last.res
         /\ last.res[id].ran
         /\ objs[id].gravity <= 0)
        => /\ objs[id].stats.timeToImpact = 0
           /\ objs[id].stats.impactVelocity = 0
           /\ ZeroOrUnset(objs[id].stats.maxHeight)
           /\ ZeroOrUnset(objs[id].stats.range)

\* the six values of motionType the switch statements know
KnownTypes ==
    {"linear", "accelerated", "freefall", "projectile", "circular", "relative"}

\* the same object with motionType linear
AsLinear(o) == [o EXCEPT !.motionType = "linear"]

\* C17: an object whose motionType is none of the six known values and the
\* same object with motionType linear stay the same, field by field, through
\* every update(dt), and update returns the same status and
\* computePreviewPoints the same points for both.
FallbackIsLinear ==
    [][ (program = "object" /\ objs[1].motionType \notin KnownTypes) =>
          /\ IsObjectUpdate =>
                /\ AsLinear(objs'[1]) = Update(AsLinear(objs[1]), last'.dt).obj
                /\ last'.res[1].ret = Update(AsLinear(objs[1]), last'.dt).ret
          /\ IsPreview =>
                last'.res[1].points
                  = ComputePreviewPoints(AsLinear(objs[1]), last'.dt).points
          /\ IsLaunch => AsLinear(objs'[1]) = Launch(AsLinear(objs[1]))
          /\ IsReset => AsLinear(objs'[1]) = Reset(AsLinear(objs[1]))
      ]_vars

\* C17 witness: an update moved an object of unknown motionType
FallbackMoved ==
    /\ program = "object"
    /\ last.op = "update"
    /\ last.res[1].ran
    /\ objs[1].motionType \notin KnownTypes
    /\ objs[1].position # last.res[1].mid.initialPosition
    /\ objs[1].elapsedTime > 0

\* the object 1 is linear without drag, was launched once, and its last
\* call was an update that ran
LinearInFlight ==
    /\ program = "object"
    /\ objs[1].motionType = "linear"
    /\ objs[1].dragMode = "none"
    /\ objs[1].isLaunched
    /\ hist[1].clean
    /\ last.op = "update"
    /\ last.res[1].ran

\* launch position + launch velocity * (sum of the steps since launch)
AnalyticPosition ==
    Vec(hist[1].position.x + FMul(hist[1].velocity.x, hist[1].t),
        hist[1].position.y + FMul(hist[1].velocity.y, hist[1].t),
        hist[1].position.z + FMul(hist[1].velocity.z, hist[1].t))

\* the object 1 is where the analytic formula puts it, at its launch velocity
OnAnalyticLine ==
    /\ objs[1].position = AnalyticPosition
    /\ objs[1].velocity = hist[1].velocity

\* the analytic line has not met the ground
AboveGround == AnalyticPosition.y > 0 \/ hist[1].velocity.y >= 0

\* C18: while the analytic line has not met the ground, a launched linear
\* object without drag is at launch position + launch velocity * t after
\* updates whose steps add up to t, at its launch velocity.
LinearAnalyticAboveGround == (LinearInFlight /\ AboveGround) => OnAnalyticLine

\* C18 as stated: the same for every sequence of updates.
LinearAnalytic == LinearInFlight => OnAnalyticLine

\* C18 witness: two or more updates moved the object along the line
LinearAdvanced ==
    /\ LinearInFlight
    /\ AboveGround
    /\ steps >= 2
    /\ hist[1].t > last.dt
    /\ last.dt > 0
    /\ objs[1].position # hist[1].position

\* the object 1 was re-based by a bounce and is on its way up from the ground
AfterBounce ==
    /\ objs[1].status = "active"
    /\ objs[1].dragMode = "none"
    /\ objs[1].restitution = SCALE \div 2
    /\ objs[1].initialPosition.y = 0
    /\ objs[1].initialVelocity.y > 0

\* the step is an update in which the object 1 bounces and stays active
IsBounce ==
    /\ last'.op = "update"
    /\ last'.res[1].tested
    /\ Trigger(last'.res[1].mid)
    /\ objs'[1].status = "active"

\* the speed the object 1 left the ground with at its last bounce, and at
\* the bounce of this step
LaunchSpeedBefore == objs[1].initialVelocity.y

LaunchSpeedAfter == objs'[1].velocity.y

\* C19: at every bounce after the first, the speed the object leaves the
\* ground with is restitution times the speed it left with at the bounce
\* before, up to what gravity adds in the one step of detection.
BounceDecay ==
    [][ (AfterBounce /\ IsBounce) =>
          Abs(LaunchSpeedAfter - FMul(objs[1].restitution, LaunchSpeedBefore))
            <= FMul(objs[1].restitution, FMul(objs[1].gravity, last'.dt))
      ]_vars

\* the object 1 is in its first fall: freefall without drag, launched from
\* its drop height, no ground contact so far
FirstFall ==
    /\ objs[1].motionType = "freefall"
    /\ objs[1].dragMode = "none"
    /\ objs[1].status = "active"
    /\ objs[1].dropHeight > 0
    /\ objs[1].gravity > 0
    /\ objs[1].initialPosition.y = objs[1].dropHeight

\* sqrt(2 h / g)
ImpactTime(h, g) == FSqrt(FDiv(2 * h, g))

\* h - g t^2 / 2
FallHeight(h, g, t) == h - FMul(FMul(FMul(SCALE \div 2, g), t), t)

\* C20: in the first fall of a freefall object without drag, an update that
\* brings the elapsed time to t < sqrt(2 h / g) leaves it active at
\* position.y = h - g t^2 / 2 > 0, and the first update that brings it to
\* t >= sqrt(2 h / g) resolves the ground contact with position.y = 0.
FreefallImpactTime ==
    [][ (FirstFall /\ last'.op = "update" /\ last'.res[1].ran) =>
          LET m == last'.res[1].mid
              t == m.elapsedTime
              h == objs[1].dropHeight
              g == objs[1].gravity
          IN  IF t < ImpactTime(h, g)
              THEN /\ objs'[1].position.y = FallHeight(h, g, t)
                   /\ objs'[1].position.y > 0
                   /\ objs'[1].status = "active"
                   /\ objs'[1].elapsedTime = t
              ELSE /\ last'.res[1].tested
                   /\ Trigger(m)
                   /\ objs'[1].position.y = 0
                   /\ objs'[1].status = "stopped" \/ objs'[1].velocity.y > 0
      ]_vars

\* C20 witness: dropped from 20 under gravity 9.8, the object met the ground
\* at the first update past 2.0203 s
LandedOnTime ==
    /\ last.op = "update"
    /\ last.res[1].tested
    /\ last.res[1].mid.motionType = "freefall"
    /\ last.res[1].mid.initialPosition.y = 20 * SCALE
    /\ last.res[1].mid.gravity = 9800
    /\ ImpactTime(20 * SCALE, 9800) \in 2020..2021
    /\ last.res[1].mid.elapsedTime >= ImpactTime(20 * SCALE, 9800)
    /\ last.res[1].mid.elapsedTime - last.dt < ImpactTime(20 * SCALE, 9800)
    /\ Trigger(last.res[1].mid)
    /\ objs[1].position.y = 0

\* the calls an orchestrator update owes to the collection coll: one per
\* entity, last index first, each with the scaled step dt
ReverseVisits(coll, dt) ==
    [k \in 1..Len(coll) |-> [id |-> coll[Len(coll) + 1 - k], dt |-> dt]]

\* C21: an orchestrator update calls update once on every entity held at
\* the start of the tick, in reverse index order, each with
\* deltaTime * timeScale, whether or not entities are removed on the way;
\* every entity ends as one such call leaves it.
UpdatesEachOnce ==
    [][ IsFrame =>
          /\ program = "phys" =>
               /\ last'.visits = ReverseVisits(projectiles, FrameDt)
               /\ \A id \in Held(projectiles) :
                    LET r == ProjectileUpdate(projs[id], FrameDt)
                    IN  /\ last'.res[id].ret = r.ret
                        /\ projs'[id] = IF r.ret = "remove"
                                        THEN ProjectileDispose(r.obj) ELSE r.obj
          /\ program = "kin" =>
               /\ last'.visits = ReverseVisits(motionObjects, FrameDt)
               /\ \A id \in Held(motionObjects) :
                    LET r == Update(objs[id], FrameDt)
                    IN  /\ last'.res[id].ret = r.ret
                        /\ objs'[id] = r.obj
      ]_vars

\* C21 witness: a tick visited two projectiles, removed the first one it
\* visited and kept the other
RemovedOnTheWay ==
    /\ program = "phys"
    /\ last.op = "update"
    /\ Len(last.visits) = 2
    /\ last.res[last.visits[1].id].ret = "remove"
    /\ last.res[last.visits[2].id].ret # "remove"
    /\ last.visits[1].dt > 0
    /\ projectiles = <<last.visits[2].id>>

\* the collection and the instances of the orchestrator that runs
Collection == IF program = "phys" THEN projectiles ELSE motionObjects

Instances == IF program = "phys" THEN projs ELSE objs

\* the entities added and not removed since: dispose() was never called
Live == {id \in DOMAIN Instances : disposeCalls[id] = 0}

\* count is the number of live entities, the collection holds exactly them,
\* each once, and none of them is disposed
BooksBalanced ==
    /\ Count(Collection) = Cardinality(Live)
    /\ Held(Collection) = Live
    /\ \A id \in Held(Collection) : Instances[id].hasMesh

\* the postconditions of one call on the collection
BooksKept ==
    /\ BooksBalanced'
    /\ last'.op \in {"removeObject", "removeProjectile"} =>
          /\ last'.id \notin Held(Collection')
          /\ ~Instances'[last'.id].hasMesh
    /\ last'.op = "removeAll" =>
          /\ Count(Collection') = 0
          /\ \A id \in Held(Collection) : ~Instances'[id].hasMesh

\* C22: after every addEntity, removeEntity, removeAll and update call the
\* books are balanced; after removeEntity(e) the collection does not hold e
\* and e is disposed; after removeAll() count is 0 and every entity held
\* before is disposed.
CollectionBookkeeping == [][BooksKept]_vars

\* C22 witness: removeObject took one of two objects out and left the other
OneRemovedOneKept ==
    /\ program = "kin"
    /\ last.op = "removeObject"
    /\ Cardinality(DOMAIN objs) = 2
    /\ Count(motionObjects) = 1
    /\ ~objs[last.id].hasMesh
    /\ \E id \in Held(motionObjects) : id # last.id /\ objs[id].hasMesh

\* the state launch() must leave behind, given the object a it started from
Launched(a, b) ==
    /\ b.status = "active"
    /\ b.elapsedTime = 0
    /\ b.initialPosition = b.position
    /\ b.initialVelocity = b.velocity
    /\ a.motionType = "freefall" =>
          /\ b.acceleration = Vec(0, -a.gravity, 0)
          /\ b.velocity = ZeroVec
          /\ b.initialVelocity = ZeroVec
    /\ a.motionType = "projectile" =>
          /\ b.acceleration = Vec(0, -a.gravity, 0)
          /\ b.velocity = a.velocity
    /\ a.motionType = "circular" =>
          /\ b.circularCenter = a.position
          /\ b.position = VAdd(b.circularCenter, Vec(a.circularRadius, 0, 0))
          /\ b.initialPosition = b.position

\* C23: launch() on an idle object leaves it active with elapsedTime 0 and
\* the snapshot equal to the position and velocity it moves from; freefall
\* gets acceleration (0,-gravity,0) and zero velocity and snapshot,
\* projectile gets acceleration (0,-gravity,0) and keeps its velocity,
\* circular takes the old position as center and starts at center +
\* (radius,0,0) with the snapshot at that point.
LaunchPostcondition ==
    [][ (IsLaunch /\ program = "object" /\ objs[last'.id].status = "idle") =>
          Launched(objs[last'.id], objs'[last'.id])
      ]_vars

\* C23 witness: a circular object was launched from idle and stands one
\* radius off the point it was configured at
CircularLaunched ==
    /\ program = "object"
    /\ last.op = "launch"
    /\ hist[1].clean
    /\ objs[1].motionType = "circular"
    /\ objs[1].circularRadius > 0
    /\ objs[1].circularCenter = hist[1].position
    /\ objs[1].position.x = hist[1].position.x + objs[1].circularRadius

\* where the mesh of a relative-mode object belongs: in the moving frame the
\* frame's displacement is taken off, in the world frame it is the position
FrameViewOf(b) ==
    IF b.viewInWorldFrame THEN b.position
    ELSE VSub(b.position, VScale(b.frameVelocity, b.elapsedTime))

\* C24: after update() of an active relative-mode object the mesh is at
\* position - frameVelocity * elapsedTime when viewInWorldFrame is false and
\* at position when it is true, and the step gives the object's own
\* velocity nothing of the frame velocity (it is the velocity after drag).
RelativeFrameView ==
    [][ (/\ IsObjectUpdate
         /\ objs[last'.id].status = "active"
         /\ objs[last'.id].motionType = "relative") =>
          /\ objs'[last'.id].meshPosition = FrameViewOf(objs'[last'.id])
          /\ last'.res[last'.id].mid.velocity = ApplyDrag(objs[last'.id], last'.dt)
      ]_vars

\* b is a with the same sign and no more magnitude
Damped(a, b) == a * b >= 0 /\ Abs(b) <= Abs(a)

\* dt k / m < 1
StableStep(o, dt) == dt * o.dragCoefficient < o.mass * SCALE

\* dt k |v| / m < 1
StableAtSpeed(o, dt) ==
    FMul(dt, o.dragCoefficient) * Length(o.velocity) < o.mass * SCALE

\* the drag step of this update left every component of b damped from a,
\* and the velocity alone when the object was slower than 1e-3
DragKept(a, b) ==
    /\ Damped(a.velocity.x, b.velocity.x)
    /\ Damped(a.velocity.y, b.velocity.y)
    /\ Damped(a.velocity.z, b.velocity.z)
    /\ Length(a.velocity) < DragEpsilon => b.velocity = a.velocity

\* the step is an update that applied drag to the active linear object
IsDragStep ==
    /\ IsObjectUpdate
    /\ objs[last'.id].status = "active"
    /\ objs[last'.id].motionType = "linear"
    /\ objs[last'.id].dragMode \in {"linear", "quadratic"}

UnsetOrNonNegative(s) == s = Undefined \/ s[1] >= 0

GroundNotPenetrated ==
    [][ (/\ IsObjectUpdate
         /\ last'.dt >= 0
         /\ hist[last'.id].clean
         /\ hist[last'.id].position.y >= 0
         /\ objs[last'.id].motionType # "circular"
         /\ objs[last'.id].position.y >= 0) =>
          objs'[last'.id].position.y >= 0
      ]_vars

\* C28: after any sequence of constructor, setParams, launch, update and
\* reset calls, status is idle iff isLaunched is false, stopped iff
\* isLaunched and isStopped are both true, active iff isLaunched is true and
\* isStopped is false, and it takes no other value.
StatusMatchesFlags ==
    \A id \in DOMAIN objs :
        /\ objs[id].status \in {"idle", "active", "stopped"}
        /\ objs[id].status = "idle" <=> ~objs[id].isLaunched
        /\ objs[id].status = "stopped" <=> (objs[id].isLaunched /\ objs[id].isStopped)
        /\ objs[id].status = "active" <=> (objs[id].isLaunched /\ ~objs[id].isStopped)

\* C28 witness: an object that was launched and updated has been reset and
\* is idle with both flags down
ResetAfterFlight ==
    /\ program = "object"
    /\ last.op = "reset"
    /\ steps > 0
    /\ objs[1].status = "idle"
    /\ ~objs[1].isLaunched
    /\ ~objs[1].isStopped
    /\ ~objs[1].bounceEnabled
    /\ objs[1].stats.speed > 0
    /\ objs[1].position.y > 0

\* C29: with timeScale 0 an update of PhysicsSimulation changes the
\* lifecycle state of no launched projectile: one in flight has not landed
\* after it, and a landed one is still held and not disposed.
FrozenKeepsLifecycle ==
    [][ (program = "phys" /\ last'.op = "update" /\ timeScale = 0) =>
          \A id \in Held(projectiles) :
              projs[id].isLaunched =>
                /\ id \in Held(projectiles')
                /\ projs'[id].isLaunched
                /\ projs'[id].hasLanded = projs[id].hasLanded
                /\ projs'[id].hasMesh
                /\ disposeCalls'[id] = disposeCalls[id]
      ]_vars

\* C29 witness: a frozen frame went over a projectile that had landed and
\* begun to fade, and it is still held
FrozenWhileLanded ==
    /\ program = "phys"
    /\ last.op = "update"
    /\ timeScale = 0
    /\ LandedHeld
    /\ projs[1].landedTimer > 0
    /\ projs[1].landedTimer < LandedTimeout
    /\ 1 \in DOMAIN last.res
    /\ last.res[1].ret = "landed"
    /\ <<[id |-> 1, dt |-> 0]>> = last.visits

\* C30: a dispose() call on a MotionObject or a Projectile that was disposed
\* before releases nothing: no scene removal and no geometry or material
\* disposal happens a second time.
ReleasedOnce ==
    program = "release" =>
        \A id \in DOMAIN hist :
            \A k \in 2..Len(hist[id].released) : hist[id].released[k] = {}

\* C30 witness: both were disposed twice; the first call released the mesh
\* and the trail of the object and the mesh and the ring of the projectile,
\* the second released nothing
DisposedTwice ==
    /\ program = "release"
    /\ Len(hist[1].released) = 2
    /\ hist[1].released[1] = {"mesh", "trailLine"}
    /\ hist[1].released[2] = {}
    /\ Len(hist[2].released) = 2
    /\ hist[2].released[1] = {"mesh", "ring"}
    /\ hist[2].released[2] = {}
    /\ ~objs[1].hasMesh
    /\ ~projs[2].hasMesh

====
